---- MODULE Spec2Model ----
(***************************************************************************)
(* General-ledger engine of the Accountant repository (Django app           *)
(* `accounting`): journal entries, their lines, posting, cached balances.    *)
(* Amounts are Decimal values with two places, held here in cents.           *)
(* Dates are day ordinals counted from 2025-01-01.                           *)
(***************************************************************************)
EXTENDS Integers, Sequences, FiniteSets, TLC

\* ---------------------------------------------------------------- bounds
MaxEntries == 2          \* rows of the journal-entry table that are explored
MaxProcs == 2            \* requests that are served at the same time
MaxCustomAccounts == 2   \* accounts entered one by one in account_create

\* ------------------------------------------------------------- constants
Tolerance == 1           \* Decimal('0.01'), in cents
PadWidth == 6            \* f"{new_num:06d}"
DefaultLineNumber == 1   \* JournalEntryLine.line_number default
MinNum == 2              \* inlineformset_factory(min_num=2, validate_min=True)

NoDate == -1             \* as_of_date=None / start_date=None / end_date=None
NoUser == "none"         \* user=None, posted_by NULL
NoPk == 0                \* unsaved instance / no row
Null == 0                \* posted_at NULL
Now == 1                 \* timezone.now()
NoNumber == [prefix |-> 0, seq |-> << >>]   \* entry_number '' (CharField default)

Schools == {1, 2}
Users == {"u1"}
Dates == 0..3
Descriptions == {"memo"}

VARIABLES
    accounts,       \* table accounting_account: id -> row
    fiscal_years,   \* table accounting_fiscalyear: id -> row
    entries,        \* table accounting_journalentry with its lines: pk -> row
    last,           \* the request handled last and its outcome
    procs,          \* request handlers in progress: worker -> local state
    report_data     \* the context the last report view rendered

vars == <<accounts, fiscal_years, entries, last, procs, report_data>>

\* ------------------------------------------------------------ arithmetic
Abs(x) == IF x < 0 THEN -x ELSE x

RECURSIVE SumDebit(_)
SumDebit(ls) == IF ls = << >> THEN 0 ELSE Head(ls).debit_amount + SumDebit(Tail(ls))

RECURSIVE SumCredit(_)
SumCredit(ls) == IF ls = << >> THEN 0 ELSE Head(ls).credit_amount + SumCredit(Tail(ls))

\* ------------------------------------------------- entry-number strings
\* An entry number is the string "JE" + year + zero-padded sequence; the
\* digits of the sequence are kept as a tuple so that formatting, parsing
\* and the string ordering of order_by('-entry_number') are computed.
RECURSIVE Digits(_)
Digits(n) == IF n < 10 THEN <<n>> ELSE Append(Digits(n \div 10), n % 10)

RECURSIVE ZeroPad(_, _)
ZeroPad(s, w) == IF Len(s) >= w THEN s ELSE ZeroPad(<<0>> \o s, w)

RECURSIVE ParseInt(_)
ParseInt(s) == IF s = << >> THEN 0 ELSE 10 * ParseInt(SubSeq(s, 1, Len(s) - 1)) + s[Len(s)]

RECURSIVE StrLess(_, _)
StrLess(s, t) ==
    IF s = << >> THEN t # << >>
    ELSE IF t = << >> THEN FALSE
    ELSE IF Head(s) # Head(t) THEN Head(s) < Head(t)
    ELSE StrLess(Tail(s), Tail(t))

YearOf(d) == 2025 + (d \div 365)

FormatEntryNumber(prefix, n) == [prefix |-> prefix, seq |-> ZeroPad(Digits(n), PadWidth)]

\* JournalEntry.generate_entry_number, for the instance `self` against the
\* stored rows E
GenerateEntryNumber(E, self) ==
    IF self.entry_number # NoNumber THEN self.entry_number
    ELSE LET prefix == YearOf(fiscal_years[self.fiscal_year].start_date)
             same == {i \in DOMAIN E : E[i].entry_number.prefix = prefix}
         IN  IF same = {} THEN FormatEntryNumber(prefix, 1)
             ELSE LET lastpk == CHOOSE i \in same :
                          \A j \in same : ~StrLess(E[i].entry_number.seq, E[j].entry_number.seq)
                  IN  FormatEntryNumber(prefix, ParseInt(E[lastpk].entry_number.seq) + 1)

\* unique=True on entry_number: would saving number n for row pk collide?
NumberTaken(E, pk, n) == \E i \in DOMAIN E : i # pk /\ E[i].entry_number = n

\* ------------------------------------------------------------- balances
\* the filter of the line query without its status condition
CountedAnyStatus(A, E, a, as_of_date, i) ==
    /\ fiscal_years[E[i].fiscal_year].school = A[a].school
    /\ (as_of_date # NoDate => E[i].date <= as_of_date)

\* the filter of the line query in Account.get_balance: is entry i one whose
\* lines count for account a?
Counted(A, E, a, as_of_date, i) ==
    /\ E[i].status = "posted"
    /\ fiscal_years[E[i].fiscal_year].school = A[a].school
    /\ (as_of_date # NoDate => E[i].date <= as_of_date)

\* the aggregate Sum('debit_amount') / Sum('credit_amount') over that query
\* (`or Decimal('0.00')` when there is no row)
RECURSIVE Aggregate(_, _, _, _, _, _)
Aggregate(A, E, a, as_of_date, side, i) ==
    IF i > Len(E) THEN 0
    ELSE (IF Counted(A, E, a, as_of_date, i)
          THEN LET mine == SelectSeq(E[i].lines, LAMBDA l : l.account = a)
               IN  IF side = "debit" THEN SumDebit(mine) ELSE SumCredit(mine)
          ELSE 0) + Aggregate(A, E, a, as_of_date, side, i + 1)

\* get_balance with the sides netted as for an Asset, whatever the type
GetBalanceDebitNormal(A, E, a, as_of_date) ==
    LET debits0 == Aggregate(A, E, a, as_of_date, "debit", 1)
        credits0 == Aggregate(A, E, a, as_of_date, "credit", 1)
        debits == IF A[a].opening_balance_type = "debit"
                  THEN debits0 + A[a].opening_balance ELSE debits0
        credits == IF A[a].opening_balance_type = "debit"
                   THEN credits0 ELSE credits0 + A[a].opening_balance
    IN  debits - credits

\* get_balance with the opening balance always put on the debit side
GetBalanceOpeningOnDebit(A, E, a, as_of_date) ==
    LET debits == Aggregate(A, E, a, as_of_date, "debit", 1) + A[a].opening_balance
        credits == Aggregate(A, E, a, as_of_date, "credit", 1)
    IN  IF A[a].account_type \in {"asset", "expense"}
        THEN debits - credits
        ELSE credits - debits

\* Account.get_balance
GetBalance(A, E, a, as_of_date) ==
    LET debits0 == Aggregate(A, E, a, as_of_date, "debit", 1)
        credits0 == Aggregate(A, E, a, as_of_date, "credit", 1)
        debits == IF A[a].opening_balance_type = "debit"
                  THEN debits0 + A[a].opening_balance ELSE debits0
        credits == IF A[a].opening_balance_type = "debit"
                   THEN credits0 ELSE credits0 + A[a].opening_balance
    IN  IF A[a].account_type \in {"asset", "expense"}
        THEN debits - credits
        ELSE credits - debits

\* Account.update_current_balance
UpdateCurrentBalance(A, E, a) ==
    [A EXCEPT ![a].current_balance = GetBalance(A, E, a, NoDate)]

\* -------------------------------------------------------------- reports
\* the ids in S as a tuple ordered by descending account code
RECURSIVE OrderByCodeDescending(_, _)
OrderByCodeDescending(A, S) ==
    IF S = {} THEN << >>
    ELSE LET first == CHOOSE a \in S : \A b \in S : A[a].code >= A[b].code
         IN  <<first>> \o OrderByCodeDescending(A, S \ {first})

\* the ids in S as a tuple ordered by account code (order_by('code'))
RECURSIVE OrderByCode(_, _)
OrderByCode(A, S) ==
    IF S = {} THEN << >>
    ELSE LET first == CHOOSE a \in S : \A b \in S : A[a].code <= A[b].code
         IN  <<first>> \o OrderByCode(A, S \ {first})

ActiveAccounts(A, school) ==
    OrderByCode(A, {a \in DOMAIN A : A[a].school = school /\ A[a].is_active})

\* FinancialReportService.generate_trial_balance (rows and amounts)
GenerateTrialBalance(A, E, school, as_of_date) ==
    LET row(a) ==
            LET balance == GetBalance(A, E, a, as_of_date)
            IN  IF A[a].account_type \in {"asset", "expense"}
                THEN [code |-> A[a].code,
                      debit_balance |-> IF balance > 0 THEN balance ELSE 0,
                      credit_balance |-> IF balance < 0 THEN Abs(balance) ELSE 0]
                ELSE [code |-> A[a].code,
                      debit_balance |-> IF balance < 0 THEN Abs(balance) ELSE 0,
                      credit_balance |-> IF balance > 0 THEN balance ELSE 0]
        RECURSIVE Rows(_)
        Rows(as) ==
            IF as = << >> THEN << >>
            ELSE IF GetBalance(A, E, Head(as), as_of_date) # 0
            THEN <<row(Head(as))>> \o Rows(Tail(as))
            ELSE Rows(Tail(as))
        RECURSIVE Total(_, _)
        Total(rs, col) ==
            IF rs = << >> THEN 0
            ELSE (IF col = "debit" THEN Head(rs).debit_balance ELSE Head(rs).credit_balance)
                 + Total(Tail(rs), col)
        trial_balance == Rows(ActiveAccounts(A, school))
        total_debits == Total(trial_balance, "debit")
        total_credits == Total(trial_balance, "credit")
    IN  [trial_balance |-> trial_balance,
         total_debits |-> total_debits,
         total_credits |-> total_credits,
         is_balanced |-> Abs(total_debits - total_credits) < Tolerance]

\* FinancialReportService.generate_balance_sheet (rows and amounts)
GenerateBalanceSheet(A, E, school, as_of_date) ==
    LET RECURSIVE Rows(_, _)
        Rows(as, type) ==
            IF as = << >> THEN << >>
            ELSE LET balance == GetBalance(A, E, Head(as), as_of_date)
                 IN  IF balance # 0 /\ A[Head(as)].account_type = type
                     THEN <<[code |-> A[Head(as)].code, balance |-> Abs(balance)]>>
                          \o Rows(Tail(as), type)
                     ELSE Rows(Tail(as), type)
        RECURSIVE Total(_)
        Total(rs) == IF rs = << >> THEN 0 ELSE Head(rs).balance + Total(Tail(rs))
        assets == Rows(ActiveAccounts(A, school), "asset")
        liabilities == Rows(ActiveAccounts(A, school), "liability")
        equity == Rows(ActiveAccounts(A, school), "equity")
    IN  [assets |-> assets, liabilities |-> liabilities, equity |-> equity,
         total_assets |-> Total(assets),
         total_liabilities |-> Total(liabilities),
         total_equity |-> Total(equity),
         is_balanced |-> Abs(Total(assets) - (Total(liabilities) + Total(equity))) < Tolerance]

\* the aggregate of one amount column over the account's lines in posted
\* entries dated within [start_date, end_date], as the income statement
\* queries it
PeriodSum(E, a, start_date, end_date, side) ==
    LET RECURSIVE Over(_)
        Over(i) ==
            IF i > Len(E) THEN 0
            ELSE (IF /\ E[i].status = "posted"
                     /\ E[i].date >= start_date
                     /\ E[i].date <= end_date
                  THEN LET mine == SelectSeq(E[i].lines, LAMBDA l : l.account = a)
                       IN  IF side = "debit" THEN SumDebit(mine) ELSE SumCredit(mine)
                  ELSE 0) + Over(i + 1)
    IN  Over(1)

\* FinancialReportService.generate_income_statement (rows and amounts)
GenerateIncomeStatement(A, E, school, fy, start, end) ==
    LET start_date == IF start = NoDate THEN fiscal_years[fy].start_date ELSE start
        end_date == IF end = NoDate THEN fiscal_years[fy].end_date ELSE end
        bal(a) ==
            IF A[a].account_type = "revenue"
            THEN PeriodSum(E, a, start_date, end_date, "credit")
                 - PeriodSum(E, a, start_date, end_date, "debit")
            ELSE PeriodSum(E, a, start_date, end_date, "debit")
                 - PeriodSum(E, a, start_date, end_date, "credit")
        RECURSIVE Rows(_, _)
        Rows(as, type) ==
            IF as = << >> THEN << >>
            ELSE IF bal(Head(as)) # 0 /\ A[Head(as)].account_type = type
            THEN <<[code |-> A[Head(as)].code, balance |-> Abs(bal(Head(as)))]>>
                 \o Rows(Tail(as), type)
            ELSE Rows(Tail(as), type)
        RECURSIVE Total(_)
        Total(rs) == IF rs = << >> THEN 0 ELSE Head(rs).balance + Total(Tail(rs))
        revenue == Rows(ActiveAccounts(A, school), "revenue")
        expenses == Rows(ActiveAccounts(A, school), "expense")
    IN  [revenue |-> revenue, expenses |-> expenses,
         total_revenue |-> Total(revenue),
         total_expenses |-> Total(expenses),
         net_income |-> Total(revenue) - Total(expenses),
         start_date |-> start_date, end_date |-> end_date]

\* string order of two entry numbers ("JE" + year + sequence digits)
EntryNumberLess(n, m) ==
    \/ n.prefix < m.prefix
    \/ n.prefix = m.prefix /\ StrLess(n.seq, m.seq)

\* the pks in S ordered by entry_number alone
RECURSIVE OrderByNumber(_, _)
OrderByNumber(E, S) ==
    IF S = {} THEN << >>
    ELSE LET first == CHOOSE i \in S : \A j \in S \ {i} :
                 ~EntryNumberLess(E[j].entry_number, E[i].entry_number)
         IN  <<first>> \o OrderByNumber(E, S \ {first})

\* the pks in S ordered by (date, entry_number) ascending
RECURSIVE OrderByDateNumber(_, _)
OrderByDateNumber(E, S) ==
    IF S = {} THEN << >>
    ELSE LET first == CHOOSE i \in S : \A j \in S \ {i} :
                 \/ E[i].date < E[j].date
                 \/ E[i].date = E[j].date
                    /\ ~EntryNumberLess(E[j].entry_number, E[i].entry_number)
         IN  <<first>> \o OrderByDateNumber(E, S \ {first})

\* FinancialReportService.generate_ledger_report (rows and amounts); lines
\* of one entry, which tie in the ordering, are taken in stored order
GenerateLedgerReport(A, E, a, start_date, end_date) ==
    LET selected == {i \in DOMAIN E :
                        /\ E[i].status = "posted"
                        /\ (start_date # NoDate => E[i].date >= start_date)
                        /\ (end_date # NoDate => E[i].date <= end_date)}
        RECURSIVE JournalLines(_)
        JournalLines(pks) ==
            IF pks = << >> THEN << >>
            ELSE LET i == Head(pks)
                     mine == SelectSeq(E[i].lines, LAMBDA l : l.account = a)
                 IN  [k \in DOMAIN mine |->
                         [date |-> E[i].date, entry_number |-> E[i].entry_number,
                          debit |-> mine[k].debit_amount,
                          credit |-> mine[k].credit_amount]]
                     \o JournalLines(Tail(pks))
        opening == IF A[a].opening_balance_type = "debit"
                   THEN A[a].opening_balance ELSE -A[a].opening_balance
        RECURSIVE Running(_, _)
        Running(ls, balance) ==
            IF ls = << >> THEN << >>
            ELSE LET l == Head(ls)
                     running_balance ==
                         IF A[a].account_type \in {"asset", "expense"}
                         THEN balance + l.debit - l.credit
                         ELSE balance + l.credit - l.debit
                 IN  <<[date |-> l.date, entry_number |-> l.entry_number,
                        debit |-> l.debit, credit |-> l.credit,
                        balance |-> running_balance]>>
                     \o Running(Tail(ls), running_balance)
        ledger_entries == Running(JournalLines(OrderByDateNumber(E, selected)), opening)
    IN  [opening_balance |-> A[a].opening_balance,
         opening_balance_type |-> A[a].opening_balance_type,
         ledger_entries |-> ledger_entries,
         closing_balance |-> IF ledger_entries = << >> THEN opening
                             ELSE ledger_entries[Len(ledger_entries)].balance]

\* ------------------------------------------------------------ seed rows
Line(a, d, c, n) == [account |-> a, debit_amount |-> d, credit_amount |-> c, line_number |-> n]

Account(school, code, type, manual, opening, side) ==
    [school |-> school, code |-> code, account_type |-> type, is_active |-> TRUE,
     allow_manual_entries |-> manual, opening_balance |-> opening,
     opening_balance_type |-> side, current_balance |-> 0]

\* chart of accounts present at start-up (current_balance default 0)
SeedAccounts ==
    <<Account(1, 1000, "asset", TRUE, 10000, "debit"),
      Account(1, 4000, "revenue", TRUE, 0, "debit"),
      Account(1, 1200, "asset", TRUE, 500, "credit"),
      Account(2, 2100, "liability", TRUE, 300, "credit"),
      Account(1, 5000, "expense", FALSE, 200, "debit")>>

AccountIds == DOMAIN SeedAccounts

FiscalYear(school, start, end) ==
    [school |-> school, start_date |-> start, end_date |-> end,
     is_active |-> TRUE, is_closed |-> FALSE]

SeedFiscalYears == <<FiscalYear(1, 1, 2), FiscalYear(2, 1, 2)>>

FiscalYearIds == DOMAIN SeedFiscalYears

\* the fiscal year whose closing and reopening is explored
ClosableYears == {1}

\* a row of accounting_journalentry as JournalEntry.objects.create leaves it
NewEntry(school, fy, date, description, status) ==
    [school |-> school, fiscal_year |-> fy, entry_number |-> NoNumber, date |-> date,
     description |-> description, status |-> status,
     total_debit |-> 0, total_credit |-> 0,
     posted_by |-> NoUser, posted_at |-> Null, lines |-> << >>]

SeedEntry(n, date, status, ls) ==
    [NewEntry(1, 1, date, "memo", status) EXCEPT
        !.entry_number = FormatEntryNumber(2025, n), !.lines = ls]

\* journal tables that may be present at start-up: no row is Posted
SeedLedgers ==
    { << >>,
      <<SeedEntry(1, 1, "draft", <<Line(1, 5000, 0, 1), Line(2, 0, 5000, 2)>>)>>,
      <<SeedEntry(1, 2, "cancelled", <<Line(3, 5000, 0, 1), Line(1, 0, 5000, 2)>>)>>,
      <<SeedEntry(1, 1, "draft", <<Line(1, 5000, 0, 1), Line(2, 0, 5000, 2)>>),
        SeedEntry(2, 2, "draft", <<Line(3, 2000, 0, 1), Line(1, 0, 1999, 2)>>)>> }

\* a request handler (one per worker) and what it holds between two of its
\* statements: the unsaved instance, the line forms still to save, the pk
Procs == 1..MaxProcs

Idle ==
    [pc |-> "idle", user |-> NoUser, instance |-> NewEntry(0, 0, NoDate, "", "draft"),
     forms |-> << >>, pk |-> NoPk, result |-> "none"]

\* creations that have drawn a number and not yet stored their row
InFlight == Cardinality({p \in Procs : procs[p].pc = "generated"})

Outcome(op, result, pk, user) == [op |-> op, result |-> result, pk |-> pk, user |-> user]

\* no report view has rendered anything yet
NoReport == [kind |-> "none"]

Init ==
    /\ accounts = SeedAccounts
    /\ fiscal_years = SeedFiscalYears
    /\ entries \in SeedLedgers
    /\ last = Outcome("init", "ok", NoPk, NoUser)
    /\ procs = [p \in Procs |-> Idle]
    /\ report_data = NoReport

\* ------------------------------------------------------- journal engine
\* Model.save() of a JournalEntry instance: writes the instance's own
\* columns; the lines live in their own table and are not touched
SaveEntry(E, pk, self) == [E EXCEPT ![pk] = [self EXCEPT !.lines = E[pk].lines]]

\* JournalEntry.calculate_totals
CalculateTotals(E, pk, self) ==
    LET ls == IF pk = NoPk THEN << >> ELSE E[pk].lines
    IN  [self EXCEPT !.total_debit = SumDebit(ls), !.total_credit = SumCredit(ls)]

\* clean without its first check (debits against credits)
CleanNoBalanceCheck(E, pk, self) ==
    LET s == [self EXCEPT
                 !.total_debit = SumDebit(IF pk = NoPk THEN << >> ELSE E[pk].lines),
                 !.total_credit = SumCredit(IF pk = NoPk THEN << >> ELSE E[pk].lines)]
        fy == fiscal_years[s.fiscal_year]
    IN  IF s.date < fy.start_date \/ s.date > fy.end_date
        THEN [self |-> s, result |-> "ValidationError"]
        ELSE IF pk # NoPk /\ s.status = "posted" /\ E[pk].status = "posted"
        THEN [self |-> s, result |-> "ValidationError"]
        ELSE [self |-> s, result |-> "ok"]

\* JournalEntry.clean: the instance with its totals, and "ok" or the error
Clean(E, pk, self) ==
    LET s == CalculateTotals(E, pk, self)
        fy == fiscal_years[s.fiscal_year]
    IN  IF Abs(s.total_debit - s.total_credit) > Tolerance
        THEN [self |-> s, result |-> "ValidationError"]
        ELSE IF s.date < fy.start_date \/ s.date > fy.end_date
        THEN [self |-> s, result |-> "ValidationError"]
        ELSE IF pk # NoPk /\ s.status = "posted" /\ E[pk].status = "posted"
        THEN [self |-> s, result |-> "ValidationError"]
        ELSE [self |-> s, result |-> "ok"]

\* JournalEntry.post up to and including self.save()
PostSave(E, pk, self, user) ==
    IF self.status = "posted"
    THEN [entries |-> E, result |-> "ValidationError"]
    ELSE LET c == Clean(E, pk, self)
         IN  IF c.result # "ok"
             THEN [entries |-> E, result |-> c.result]
             ELSE [entries |-> SaveEntry(E, pk, [c.self EXCEPT !.status = "posted",
                                                               !.posted_by = user,
                                                               !.posted_at = Now]),
                   result |-> "ok"]

\* the loop cut short after its first line
UpdateBalancesFirstLineOnly(A, E, ls) ==
    IF ls = << >> THEN A
    ELSE [A EXCEPT ![Head(ls).account].current_balance =
                       GetBalance(A, E, Head(ls).account, NoDate)]

\* the loop `for line in self.lines.all(): line.account.update_current_balance()`
RECURSIVE UpdateBalances(_, _, _)
UpdateBalances(A, E, ls) ==
    IF ls = << >> THEN A
    ELSE UpdateBalances(UpdateCurrentBalance(A, E, Head(ls).account), E, Tail(ls))

\* JournalEntry.post
Post(A, E, pk, self, user) ==
    LET p == PostSave(E, pk, self, user)
    IN  IF p.result # "ok"
        THEN [accounts |-> A, entries |-> E, result |-> p.result]
        ELSE [accounts |-> UpdateBalances(A, p.entries, p.entries[pk].lines),
              entries |-> p.entries, result |-> "ok"]

\* view journal_entry_post (POST request of a user of `school`)
JournalEntryPost(school, pk, user) ==
    /\ IF pk \notin DOMAIN entries \/ entries[pk].school # school
       THEN /\ last' = Outcome("journal_entry_post", "Http404", pk, user)
            /\ UNCHANGED <<accounts, entries>>
       ELSE LET r == Post(accounts, entries, pk, entries[pk], user)
            IN  /\ accounts' = r.accounts
                /\ entries' = r.entries
                /\ last' = Outcome("journal_entry_post", r.result, pk, user)
    /\ UNCHANGED <<fiscal_years, procs, report_data>>

\* unique_together (journal_entry, line_number): INSERT of one line row
InsertLine(E, pk, line) ==
    IF \E k \in DOMAIN E[pk].lines : E[pk].lines[k].line_number = line.line_number
    THEN [entries |-> E, result |-> "IntegrityError"]
    ELSE [entries |-> [E EXCEPT ![pk].lines = Append(@, line)], result |-> "ok"]

\* the concrete fields of model JournalEntryLine (teacher is commented out)
JournalEntryLineFields ==
    {"id", "journal_entry", "account", "description", "debit_amount",
     "credit_amount", "student", "line_number", "created_at"}

\* the keyword arguments without teacher
ServiceLineKwargsNoTeacher ==
    {"journal_entry", "account", "debit_amount", "credit_amount",
     "description", "student", "line_number"}

\* the keyword arguments create_journal_entry passes to
\* JournalEntryLine.objects.create
ServiceLineKwargs ==
    {"journal_entry", "account", "debit_amount", "credit_amount",
     "description", "student", "teacher", "line_number"}

\* the loop `for idx, line_data in enumerate(lines_data, start=1)`;
\* Model.__init__ raises TypeError for a keyword that is no field
RECURSIVE CreateLines(_, _, _, _)
CreateLines(E, pk, lines_data, idx) ==
    IF lines_data = << >> THEN [entries |-> E, result |-> "ok"]
    ELSE IF ~(ServiceLineKwargs \subseteq JournalEntryLineFields)
    THEN [entries |-> E, result |-> "TypeError"]
    ELSE LET d == Head(lines_data)
             r == InsertLine(E, pk, Line(d.account, d.debit_amount, d.credit_amount, idx))
         IN  IF r.result # "ok" THEN r
             ELSE CreateLines(r.entries, pk, Tail(lines_data), idx + 1)

Result(A, E, result, pk) == [accounts |-> A, entries |-> E, result |-> result, pk |-> pk]

\* the block without a transaction around it: what was written stays
AtomicNoRollback(A, E, after) == after

\* `with transaction.atomic()`: an exception leaving the block rolls back
Atomic(A, E, after) ==
    IF after.result = "ok" THEN after ELSE Result(A, E, after.result, NoPk)

\* body of AccountingService.create_journal_entry
CreateJournalEntryBody(A, E, school, fy, date, description, lines_data, user, auto_post) ==
    LET e0 == NewEntry(school, fy, date, description, "draft")
    IN  IF NumberTaken(E, NoPk, NoNumber)
        THEN Result(A, E, "IntegrityError", NoPk)
        ELSE
        LET E0 == Append(E, e0)
            pk == Len(E0)
            e1 == [e0 EXCEPT !.entry_number = GenerateEntryNumber(E0, e0)]
        IN  IF NumberTaken(E0, pk, e1.entry_number)
            THEN Result(A, E0, "IntegrityError", pk)
            ELSE
            LET cl == CreateLines(SaveEntry(E0, pk, e1), pk, lines_data, 1)
            IN  IF cl.result # "ok"
                THEN Result(A, cl.entries, cl.result, pk)
                ELSE
                LET c == Clean(cl.entries, pk, e1)
                IN  IF c.result # "ok"
                    THEN Result(A, cl.entries, c.result, pk)
                    ELSE IF auto_post /\ user # NoUser
                    THEN LET p == Post(A, cl.entries, pk, c.self, user)
                         IN  Result(p.accounts, p.entries, p.result, pk)
                    ELSE Result(A, cl.entries, "ok", pk)

LineData(a, d, c) == [account |-> a, debit_amount |-> d, credit_amount |-> c]

ServiceCall(fy, date, lines_data, user, auto_post) ==
    [fy |-> fy, date |-> date, lines_data |-> lines_data, user |-> user,
     auto_post |-> auto_post]

\* calls of create_journal_entry that are explored; like the callers in
\* services.py they pass the school of the fiscal year
ServiceCalls ==
    { ServiceCall(1, 1, << >>, "u1", TRUE),
      ServiceCall(1, 1, << >>, "u1", FALSE),
      ServiceCall(1, 1, << >>, NoUser, TRUE),
      ServiceCall(1, 3, << >>, "u1", TRUE),
      ServiceCall(1, 1, <<LineData(1, 10000, 0), LineData(2, 0, 9000)>>, "u1", FALSE),
      ServiceCall(1, 1, <<LineData(1, 5000, 0), LineData(2, 0, 5000)>>, "u1", TRUE) }

\* AccountingService.create_journal_entry
CreateJournalEntry(school, fy, date, description, lines_data, user, auto_post) ==
    /\ Len(entries) + InFlight < MaxEntries
    /\ LET r == Atomic(accounts, entries,
                       CreateJournalEntryBody(accounts, entries, school, fy, date,
                                              description, lines_data, user, auto_post))
       IN  /\ accounts' = r.accounts
           /\ entries' = r.entries
           /\ last' = Outcome("create_journal_entry", r.result, r.pk, user)
    /\ UNCHANGED <<fiscal_years, procs, report_data>>

\* ------------------------------------------------- form-based creation
\* JournalEntryLine.clean without its two checks of the amounts
LineCleanNoSideCheck(A, l) ==
    IF ~A[l.account].allow_manual_entries THEN "ValidationError" ELSE "ok"

\* JournalEntryLine.clean without its check of allow_manual_entries
LineCleanAnyAccount(A, l) ==
    IF l.debit_amount > 0 /\ l.credit_amount > 0 THEN "ValidationError"
    ELSE IF l.debit_amount = 0 /\ l.credit_amount = 0 THEN "ValidationError"
    ELSE "ok"

\* JournalEntryLine.clean
LineClean(A, l) ==
    IF l.debit_amount > 0 /\ l.credit_amount > 0 THEN "ValidationError"
    ELSE IF l.debit_amount = 0 /\ l.credit_amount = 0 THEN "ValidationError"
    ELSE IF ~A[l.account].allow_manual_entries THEN "ValidationError"
    ELSE "ok"

\* formset.is_valid() of get_journal_entry_line_formset(): every line form
\* passes the field validators and JournalEntryLine.clean, and at least
\* min_num forms are filled in
FormsetIsValid(A, forms) ==
    /\ Len(forms) >= MinNum
    /\ \A k \in DOMAIN forms :
          /\ forms[k].account \in DOMAIN A
          /\ forms[k].debit_amount >= 0
          /\ forms[k].credit_amount >= 0
          /\ LineClean(A, forms[k]) = "ok"

\* form.is_valid() of JournalEntryForm: the ModelForm runs JournalEntry.clean
\* on the unsaved instance, which has no stored lines
FormIsValid(E, instance) == Clean(E, NoPk, instance).result = "ok"

\* formset.save(): one INSERT per form; line_number is no form field and
\* keeps its default
RECURSIVE FormsetSave(_, _, _)
FormsetSave(E, pk, forms) ==
    IF forms = << >> THEN [entries |-> E, result |-> "ok"]
    ELSE LET f == Head(forms)
             r == InsertLine(E, pk, Line(f.account, f.debit_amount, f.credit_amount,
                                         DefaultLineNumber))
         IN  IF r.result # "ok" THEN r
             ELSE FormsetSave(r.entries, pk, Tail(forms))

\* the try block of view journal_entry_create: every save is committed on
\* its own, the except clause reports the error and undoes nothing
JournalEntryCreateBody(A, E, instance, forms) ==
    LET e1 == [instance EXCEPT !.entry_number = GenerateEntryNumber(E, instance)]
    IN  IF NumberTaken(E, NoPk, e1.entry_number)
        THEN Result(A, E, "IntegrityError", NoPk)
        ELSE
        LET E1 == Append(E, e1)
            pk == Len(E1)
            fs == FormsetSave(E1, pk, forms)
        IN  IF fs.result # "ok"
            THEN Result(A, fs.entries, fs.result, pk)
            ELSE Result(A, fs.entries, Clean(fs.entries, pk, e1).result, pk)

FormPost(school, fy, date, forms) ==
    [school |-> school, fy |-> fy, date |-> date, forms |-> forms]

\* POST requests to journal_entry_create that are explored
FormPosts ==
    { FormPost(1, 1, 1, <<LineData(1, 1, 0), LineData(2, 0, 1)>>),
      FormPost(1, 1, 1, <<LineData(1, 10000, 0), LineData(2, 0, 9000)>>),
      FormPost(1, 2, 1, <<LineData(1, 1, 0), LineData(2, 0, 1)>>),
      FormPost(2, 2, 2, <<LineData(4, 0, 1), LineData(1, 1, 0)>>),
      FormPost(1, 1, 3, <<LineData(1, 1, 0), LineData(2, 0, 1)>>),
      FormPost(1, 1, 1, <<LineData(1, 5000, 0)>>),
      FormPost(1, 1, 1, <<LineData(1, 5000, 5000), LineData(2, 0, 5000)>>),
      FormPost(1, 1, 1, <<LineData(5, 5000, 0), LineData(2, 0, 5000)>>) }

\* view journal_entry_create (POST request of `user` of `school`).
\* form.is_valid() runs JournalEntry.clean on an instance without pk, whose
\* calculate_totals goes through the reverse manager `self.lines`: depending
\* on the installed Django that raises ValueError (the request ends with
\* nothing written) or aggregates over no rows.
JournalEntryCreate(school, user, fy, date, description, forms) ==
    /\ Len(entries) + InFlight < MaxEntries
    /\ \/ /\ last' = Outcome("journal_entry_create", "ValueError", NoPk, user)
          /\ UNCHANGED <<accounts, entries>>
       \/ LET instance == NewEntry(school, fy, date, description, "draft")
          IN  IF FormIsValid(entries, instance) /\ FormsetIsValid(accounts, forms)
              THEN LET r == JournalEntryCreateBody(accounts, entries, instance, forms)
                   IN  /\ accounts' = r.accounts
                       /\ entries' = r.entries
                       /\ last' = Outcome("journal_entry_create", r.result, r.pk, user)
              ELSE /\ last' = Outcome("journal_entry_create", "invalid", NoPk, user)
                   /\ UNCHANGED <<accounts, entries>>
    /\ UNCHANGED <<fiscal_years, procs, report_data>>

\* ---------------------------------------------------------------- admin
\* FiscalYearAdmin change view: is_closed is an editable field
AdminFiscalYearChange(fy, is_closed) ==
    /\ fiscal_years' = [fiscal_years EXCEPT ![fy].is_closed = is_closed]
    /\ last' = Outcome("admin_fiscal_year_change", "ok", fy, NoUser)
    /\ UNCHANGED <<accounts, entries, procs, report_data>>

\* FiscalYearAdmin change view: is_active is an editable field as well
AdminFiscalYearActivate(fy, is_active) ==
    /\ fiscal_years' = [fiscal_years EXCEPT ![fy].is_active = is_active]
    /\ last' = Outcome("admin_fiscal_year_activate", "ok", fy, NoUser)
    /\ UNCHANGED <<accounts, entries, procs, report_data>>

\* -------------------------------------------------- billing integration
\* an invoice object carrying the attributes post_invoice_to_ledger reads
Invoice(school, issue_date, total_amount, total_taxable_amount, total_vat) ==
    [school |-> school, issue_date |-> issue_date, total_amount |-> total_amount,
     total_taxable_amount |-> total_taxable_amount, total_vat |-> total_vat,
     invoice_number |-> "INV-1", customer_name |-> "customer", student |-> Null]

\* a row of billing.Invoice: it has no school, issue_date,
\* total_taxable_amount, total_vat or customer_name
BillingInvoice(invoice_date, subtotal, vat_amount, total_amount) ==
    [invoice_number |-> "INV-1", student |-> Null, invoice_date |-> invoice_date,
     subtotal |-> subtotal, vat_amount |-> vat_amount, total_amount |-> total_amount]

\* a payment object carrying the attributes post_payment_to_ledger reads
Payment(invoice, payment_date, amount, payment_method) ==
    [invoice |-> invoice, payment_date |-> payment_date, amount |-> amount,
     payment_method |-> payment_method, transaction_id |-> ""]

\* a row of billing.Payment: its reference column is transaction_number
BillingPayment(invoice, payment_date, amount, payment_method) ==
    [invoice |-> invoice, payment_date |-> payment_date, amount |-> amount,
     payment_method |-> payment_method, transaction_number |-> ""]

\* the attributes the services read before and after their look-ups
InvoiceLookupAttributes == {"school", "issue_date"}
InvoiceLineAttributes ==
    {"total_amount", "invoice_number", "customer_name", "student",
     "total_taxable_amount", "total_vat"}
PaymentLookupAttributes == {"invoice", "payment_date", "payment_method"}
PaymentLineAttributes == {"amount", "transaction_id"}

\* invoices handed to post_invoice_to_ledger: one that meets every
\* precondition, one dated outside every fiscal year, one of the school
\* whose chart lacks 1200 and 4000, and one billing.Invoice row
Invoices ==
    <<Invoice(1, 1, 11500, 10000, 1500),
      Invoice(1, 3, 11500, 10000, 1500),
      Invoice(2, 1, 11500, 10000, 1500),
      BillingInvoice(1, 10000, 1500, 11500)>>

\* payments handed to post_payment_to_ledger: cash and bank payments that
\* meet every precondition, one dated outside every fiscal year, one of the
\* school whose chart lacks 1100, and one billing.Payment row
Payments ==
    <<Payment(Invoices[1], 2, 11500, "cash"),
      Payment(Invoices[1], 2, 11500, "bank_transfer"),
      Payment(Invoices[1], 3, 11500, "cash"),
      Payment(Invoices[3], 1, 11500, "cash"),
      BillingPayment(Invoices[4], 1, 11500, "cash")>>

\* chart of accounts with the standard integration accounts of school 1
IntegAccounts ==
    SeedAccounts \o
    <<Account(1, 2100, "liability", TRUE, 0, "credit"),
      Account(1, 1100, "asset", TRUE, 0, "debit"),
      Account(1, 1110, "asset", TRUE, 0, "debit")>>

\* the look-up without is_active=True
ActiveFiscalYearAnyStatus(F, school, date) ==
    LET S == {f \in DOMAIN F : /\ F[f].school = school
                               /\ F[f].start_date <= date
                               /\ F[f].end_date >= date}
    IN  IF S = {} THEN Null
        ELSE CHOOSE f \in S : \A g \in S : \/ F[f].start_date > F[g].start_date
                                           \/ /\ F[f].start_date = F[g].start_date
                                              /\ f <= g

\* FiscalYear.objects.filter(school, is_active=True, start_date__lte=date,
\* end_date__gte=date).first(), Meta.ordering = ['-start_date']
ActiveFiscalYear(F, school, date) ==
    LET S == {f \in DOMAIN F : /\ F[f].school = school
                               /\ F[f].is_active
                               /\ F[f].start_date <= date
                               /\ F[f].end_date >= date}
    IN  IF S = {} THEN Null
        ELSE CHOOSE f \in S : \A g \in S : \/ F[f].start_date > F[g].start_date
                                           \/ /\ F[f].start_date = F[g].start_date
                                              /\ f <= g

\* Account.objects.filter(school, code, account_type).first()
AccountByCode(A, school, code, type) ==
    LET S == {a \in DOMAIN A : /\ A[a].school = school
                               /\ A[a].code = code
                               /\ A[a].account_type = type}
    IN  IF S = {} THEN Null ELSE CHOOSE a \in S : \A b \in S : a <= b

\* the call of create_journal_entry with auto_post=True followed by
\* `entry.invoice = invoice; entry.save()` (or entry.payment): invoice is
\* no column of the entry, payment is one no other code reads; save()
\* rewrites the entry's own columns
LinkAndSave(r) ==
    IF r.result # "ok" THEN r
    ELSE Result(r.accounts, SaveEntry(r.entries, r.pk, r.entries[r.pk]), "ok", r.pk)

CreateAndLink(A, E, school, fy, date, lines, user) ==
    LinkAndSave(Atomic(A, E, CreateJournalEntryBody(A, E, school, fy, date, "memo",
                                                    lines, user, TRUE)))

\* body of AccountingService.post_invoice_to_ledger
PostInvoiceToLedgerBody(A, E, F, invoice, user) ==
    IF ~(InvoiceLookupAttributes \subseteq DOMAIN invoice)
    THEN Result(A, E, "AttributeError", NoPk)
    ELSE
    LET school == invoice.school
        fiscal_year == ActiveFiscalYear(F, school, invoice.issue_date)
        accounts_receivable == AccountByCode(A, school, 1200, "asset")
        revenue_account == AccountByCode(A, school, 4000, "revenue")
        vat_payable == AccountByCode(A, school, 2100, "liability")
    IN  IF fiscal_year = Null
        THEN Result(A, E, "ValueError", NoPk)
        ELSE IF Null \in {accounts_receivable, revenue_account, vat_payable}
        THEN Result(A, E, "ValueError", NoPk)
        ELSE IF ~(InvoiceLineAttributes \subseteq DOMAIN invoice)
        THEN Result(A, E, "AttributeError", NoPk)
        ELSE CreateAndLink(A, E, school, fiscal_year, invoice.issue_date,
                           <<LineData(accounts_receivable, invoice.total_amount, 0),
                             LineData(revenue_account, 0, invoice.total_taxable_amount),
                             LineData(vat_payable, 0, invoice.total_vat)>>,
                           user)

\* body of AccountingService.post_payment_to_ledger
PostPaymentToLedgerBody(A, E, F, payment, user) ==
    IF ~(PaymentLookupAttributes \subseteq DOMAIN payment)
    THEN Result(A, E, "AttributeError", NoPk)
    ELSE IF "school" \notin DOMAIN payment.invoice
    THEN Result(A, E, "AttributeError", NoPk)
    ELSE
    LET invoice == payment.invoice
        school == invoice.school
        fiscal_year == ActiveFiscalYear(F, school, payment.payment_date)
        cash_account == IF payment.payment_method \in {"cash", "card"}
                        THEN AccountByCode(A, school, 1100, "asset")
                        ELSE AccountByCode(A, school, 1110, "asset")
        accounts_receivable == AccountByCode(A, school, 1200, "asset")
    IN  IF fiscal_year = Null
        THEN Result(A, E, "ValueError", NoPk)
        ELSE IF Null \in {cash_account, accounts_receivable}
        THEN Result(A, E, "ValueError", NoPk)
        ELSE IF ~(PaymentLineAttributes \subseteq DOMAIN payment)
        THEN Result(A, E, "AttributeError", NoPk)
        ELSE CreateAndLink(A, E, school, fiscal_year, payment.payment_date,
                           <<LineData(cash_account, payment.amount, 0),
                             LineData(accounts_receivable, 0, payment.amount)>>,
                           user)

\* the outcome of a service called with document number doc
DocOutcome(op, result, pk, user, doc) ==
    [op |-> op, result |-> result, pk |-> pk, user |-> user, doc |-> doc]

\* the tables and the outcome a service call with result r leaves behind
Returned(r, op, user, doc) ==
    /\ accounts' = r.accounts
    /\ entries' = r.entries
    /\ last' = DocOutcome(op, r.result, r.pk, user, doc)

\* AccountingService.post_invoice_to_ledger
PostInvoiceToLedger(i, user) ==
    /\ Len(entries) + InFlight < MaxEntries
    /\ Returned(PostInvoiceToLedgerBody(accounts, entries, fiscal_years, Invoices[i], user),
                "post_invoice_to_ledger", user, i)
    /\ UNCHANGED <<fiscal_years, procs, report_data>>

\* AccountingService.post_payment_to_ledger
PostPaymentToLedger(j, user) ==
    /\ Len(entries) + InFlight < MaxEntries
    /\ Returned(PostPaymentToLedgerBody(accounts, entries, fiscal_years, Payments[j], user),
                "post_payment_to_ledger", user, j)
    /\ UNCHANGED <<fiscal_years, procs, report_data>>

\* ------------------------------------------------------- report views
\* the accounts table after account.get_balance(as_of_date) with the result
\* written back to current_balance
AfterGetBalanceStoring(A, E, a) == UpdateCurrentBalance(A, E, a)

\* the accounts table after account.get_balance(as_of_date): the method
\* aggregates and returns, it assigns no field and saves nothing
AfterGetBalance(A, E, a) == A

\* the accounts table after the loop `for account in accounts:
\* balance = account.get_balance(as_of_date)` of a report
RECURSIVE AfterBalanceLoop(_, _, _)
AfterBalanceLoop(A, E, as) ==
    IF as = << >> THEN A
    ELSE AfterBalanceLoop(AfterGetBalance(A, E, Head(as)), E, Tail(as))

\* the filter forms: fiscal_year must be a fiscal year of the school
FilterFormIsValid(school, fy) ==
    fy \in DOMAIN fiscal_years /\ fiscal_years[fy].school = school

\* LedgerReportFilterForm: account must be an active account of the school
LedgerFormIsValid(school, a) ==
    a \in DOMAIN accounts /\ accounts[a].school = school /\ accounts[a].is_active

Rendered(kind, input, data) == [kind |-> kind, input |-> input, data |-> data]

\* view trial_balance (GET with fiscal_year)
TrialBalance(school, fy, as_of_date) ==
    /\ IF FilterFormIsValid(school, fy)
       THEN /\ report_data' = Rendered("trial_balance", <<school, as_of_date>>,
                                       GenerateTrialBalance(accounts, entries, school, as_of_date))
            /\ accounts' = AfterBalanceLoop(accounts, entries, ActiveAccounts(accounts, school))
            /\ last' = Outcome("trial_balance", "ok", NoPk, NoUser)
       ELSE /\ report_data' = NoReport
            /\ last' = Outcome("trial_balance", "invalid", NoPk, NoUser)
            /\ UNCHANGED accounts
    /\ UNCHANGED <<fiscal_years, entries, procs>>

\* view balance_sheet (GET with fiscal_year)
BalanceSheet(school, fy, as_of_date) ==
    /\ IF FilterFormIsValid(school, fy)
       THEN /\ report_data' = Rendered("balance_sheet", <<school, as_of_date>>,
                                       GenerateBalanceSheet(accounts, entries, school, as_of_date))
            /\ accounts' = AfterBalanceLoop(accounts, entries, ActiveAccounts(accounts, school))
            /\ last' = Outcome("balance_sheet", "ok", NoPk, NoUser)
       ELSE /\ report_data' = NoReport
            /\ last' = Outcome("balance_sheet", "invalid", NoPk, NoUser)
            /\ UNCHANGED accounts
    /\ UNCHANGED <<fiscal_years, entries, procs>>

\* view income_statement (GET with fiscal_year)
IncomeStatement(school, fy, start_date, end_date) ==
    /\ IF FilterFormIsValid(school, fy)
       THEN /\ report_data' = Rendered("income_statement", <<school, fy, start_date, end_date>>,
                                       GenerateIncomeStatement(accounts, entries, school, fy,
                                                               start_date, end_date))
            /\ last' = Outcome("income_statement", "ok", NoPk, NoUser)
       ELSE /\ report_data' = NoReport
            /\ last' = Outcome("income_statement", "invalid", NoPk, NoUser)
    /\ UNCHANGED <<accounts, fiscal_years, entries, procs>>

\* view ledger_report (GET with account)
LedgerReport(school, a, start_date, end_date) ==
    /\ IF LedgerFormIsValid(school, a)
       THEN /\ report_data' = Rendered("ledger_report", <<a, start_date, end_date>>,
                                       GenerateLedgerReport(accounts, entries, a,
                                                            start_date, end_date))
            /\ last' = Outcome("ledger_report", "ok", NoPk, NoUser)
       ELSE /\ report_data' = NoReport
            /\ last' = Outcome("ledger_report", "invalid", NoPk, NoUser)
    /\ UNCHANGED <<accounts, fiscal_years, entries, procs>>

\* the concrete fields of model JournalEntry (invoice is commented out)
JournalEntryFields ==
    {"id", "school", "fiscal_year", "entry_number", "date", "reference",
     "description", "status", "billing_invoice", "payment", "total_debit",
     "total_credit", "created_by", "posted_by", "posted_at", "created_at",
     "updated_at"}

\* the fieldsets without the name of the field that is commented out
JournalEntryAdminFieldsetsNoInvoice ==
    {"school", "fiscal_year", "entry_number", "date", "status", "reference",
     "description", "billing_invoice", "payment", "total_debit",
     "total_credit", "created_by", "posted_by", "posted_at", "created_at",
     "updated_at"}

\* the names listed in JournalEntryAdmin.fieldsets
JournalEntryAdminFieldsets ==
    {"school", "fiscal_year", "entry_number", "date", "status", "reference",
     "description", "invoice", "billing_invoice", "payment", "total_debit",
     "total_credit", "created_by", "posted_by", "posted_at", "created_at",
     "updated_at"}

\* JournalEntryAdmin.readonly_fields
JournalEntryAdminReadonly ==
    {"entry_number", "total_debit", "total_credit", "posted_by", "posted_at",
     "created_at", "updated_at"}

\* JournalEntryAdmin.get_readonly_fields
GetReadonlyFields(obj) ==
    IF obj.status = "posted"
    THEN JournalEntryAdminReadonly \cup
         {"school", "fiscal_year", "date", "reference", "description"}
    ELSE JournalEntryAdminReadonly

\* JournalEntryAdmin change view with JournalEntryLineInline: the form is
\* built from the fieldsets minus the read-only names; a name that is no
\* model field makes the form factory raise FieldError.  Otherwise the
\* submitted values of the editable fields and one more inline line are
\* validated by JournalEntry.clean and saved.
AdminJournalEntryChange(pk, status, date, line) ==
    /\ pk \in DOMAIN entries
    /\ LET obj == entries[pk]
           editable == JournalEntryAdminFieldsets \ GetReadonlyFields(obj)
           submitted == [obj EXCEPT !.status = status,
                                    !.date = IF "date" \in editable THEN date ELSE @]
       IN  IF ~(editable \subseteq JournalEntryFields)
           THEN /\ last' = Outcome("admin_journal_entry_change", "FieldError", pk, NoUser)
                /\ UNCHANGED entries
           ELSE IF Clean(entries, pk, submitted).result # "ok"
           THEN /\ last' = Outcome("admin_journal_entry_change", "invalid", pk, NoUser)
                /\ UNCHANGED entries
           ELSE LET saved == SaveEntry(entries, pk, Clean(entries, pk, submitted).self)
                    r == InsertLine(saved, pk, line)
                IN  /\ entries' = r.entries
                    /\ last' = Outcome("admin_journal_entry_change", r.result, pk, NoUser)
    /\ UNCHANGED <<accounts, fiscal_years, procs, report_data>>

\* ------------------------------------------- creation, statement by statement
\* view journal_entry_create up to entry.generate_entry_number(): the two
\* is_valid() calls and the SELECT of the highest number.  (Validation reads
\* only rows no operation here changes, so it is taken together with the
\* SELECT.)
CreateValidate(p, school, user, fy, date, description, forms) ==
    /\ procs[p].pc = "idle"
    /\ Len(entries) + InFlight < MaxEntries
    /\ \/ /\ procs' = [procs EXCEPT ![p] =
                   [Idle EXCEPT !.pc = "done", !.user = user, !.result = "ValueError"]]
          /\ last' = Outcome("journal_entry_create", "ValueError", NoPk, user)
       \/ LET instance == NewEntry(school, fy, date, description, "draft")
          IN  IF FormIsValid(entries, instance) /\ FormsetIsValid(accounts, forms)
              THEN /\ procs' = [procs EXCEPT ![p] =
                          [pc |-> "generated", user |-> user,
                           instance |-> [instance EXCEPT !.entry_number =
                                            GenerateEntryNumber(entries, instance)],
                           forms |-> forms, pk |-> NoPk, result |-> "none"]]
                   /\ UNCHANGED last
              ELSE /\ procs' = [procs EXCEPT ![p] =
                          [Idle EXCEPT !.pc = "done", !.user = user, !.result = "invalid"]]
                   /\ last' = Outcome("journal_entry_create", "invalid", NoPk, user)
    /\ UNCHANGED <<accounts, fiscal_years, entries, report_data>>

\* entry.save(): the INSERT, refused by the unique index on entry_number when
\* the number was stored meanwhile; the except clause ends the request
CreateSaveEntry(p) ==
    /\ procs[p].pc = "generated"
    /\ IF NumberTaken(entries, NoPk, procs[p].instance.entry_number)
       THEN /\ procs' = [procs EXCEPT ![p].pc = "done", ![p].result = "IntegrityError"]
            /\ last' = Outcome("journal_entry_create", "IntegrityError", NoPk, procs[p].user)
            /\ UNCHANGED entries
       ELSE /\ entries' = Append(entries, procs[p].instance)
            /\ procs' = [procs EXCEPT ![p].pc = "saved", ![p].pk = Len(entries) + 1]
            /\ UNCHANGED last
    /\ UNCHANGED <<accounts, fiscal_years, report_data>>

\* formset.save(), one line INSERT at a time, each committed on its own; after
\* the last one entry.clean() decides the message of the request
CreateSaveLine(p) ==
    /\ procs[p].pc = "saved"
    /\ procs[p].forms # << >>
    /\ LET pk == procs[p].pk
           r == FormsetSave(entries, pk, <<Head(procs[p].forms)>>)
           rest == Tail(procs[p].forms)
       IN  /\ entries' = r.entries
           /\ IF r.result # "ok"
              THEN /\ procs' = [procs EXCEPT ![p].pc = "done", ![p].result = r.result]
                   /\ last' = Outcome("journal_entry_create", r.result, pk, procs[p].user)
              ELSE IF rest # << >>
              THEN /\ procs' = [procs EXCEPT ![p].forms = rest]
                   /\ UNCHANGED last
              ELSE LET c == Clean(r.entries, pk, procs[p].instance)
                   IN  /\ procs' = [procs EXCEPT ![p].pc = "done", ![p].forms = rest,
                                                  ![p].result = c.result]
                       /\ last' = Outcome("journal_entry_create", c.result, pk, procs[p].user)
    /\ UNCHANGED <<accounts, fiscal_years, report_data>>

\* ------------------------------------------------------- specification
Statuses == {"draft", "posted", "cancelled"}

Next ==
    \/ \E c \in ServiceCalls, description \in Descriptions :
          CreateJournalEntry(fiscal_years[c.fy].school, c.fy, c.date, description,
                             c.lines_data, c.user, c.auto_post)
    \/ \E r \in FormPosts, user \in Users, description \in Descriptions :
          JournalEntryCreate(r.school, user, r.fy, r.date, description, r.forms)
    \/ \E school \in Schools, pk \in 1..MaxEntries, user \in Users :
          JournalEntryPost(school, pk, user)
    \/ \E fy \in ClosableYears, is_closed \in BOOLEAN :
          AdminFiscalYearChange(fy, is_closed)
    \/ \E pk \in 1..MaxEntries, status \in Statuses :
          AdminJournalEntryChange(pk, status, 2, Line(1, 1, 0, 3))

Spec == Init /\ [][Next]_vars

\* requests served concurrently: the view journal_entry_create advances one
\* statement at a time.  create_journal_entry stays one step: its first
\* statement inserts the row with the empty entry_number under the unique
\* index, which makes a second transaction wait for the first to end.
NextConc ==
    \/ \E p \in Procs, r \in FormPosts, user \in Users, description \in Descriptions :
          CreateValidate(p, r.school, user, r.fy, r.date, description, r.forms)
    \/ \E p \in Procs : CreateSaveEntry(p)
    \/ \E p \in Procs : CreateSaveLine(p)
    \/ \E c \in ServiceCalls, description \in Descriptions :
          CreateJournalEntry(fiscal_years[c.fy].school, c.fy, c.date, description,
                             c.lines_data, c.user, c.auto_post)
    \/ \E school \in Schools, pk \in 1..MaxEntries, user \in Users :
          JournalEntryPost(school, pk, user)

SpecConc == Init /\ [][NextConc]_vars

\* the billing integration: documents are posted to the ledger while
\* existing drafts are posted and fiscal years are switched on and off
InitInteg ==
    /\ accounts = IntegAccounts
    /\ fiscal_years = SeedFiscalYears
    /\ entries \in SeedLedgers
    /\ last = Outcome("init", "ok", NoPk, NoUser)
    /\ procs = [p \in Procs |-> Idle]
    /\ report_data = NoReport

NextInteg ==
    \/ \E i \in DOMAIN Invoices, user \in Users : PostInvoiceToLedger(i, user)
    \/ \E j \in DOMAIN Payments, user \in Users : PostPaymentToLedger(j, user)
    \/ \E fy \in FiscalYearIds, is_active \in BOOLEAN : AdminFiscalYearActivate(fy, is_active)
    \/ \E school \in Schools, pk \in 1..MaxEntries, user \in Users :
          JournalEntryPost(school, pk, user)

SpecInteg == InitInteg /\ [][NextInteg]_vars

\* the books of one school under the reports: a chart of Cash (opening
\* balance 100.00 debit) and Revenue, and a chart whose opening balances
\* balance (Cash 100.00 debit against Equity 100.00 credit) with an Expense,
\* a Liability and an inactive account
CashRevenueChart ==
    <<Account(1, 1000, "asset", TRUE, 10000, "debit"),
      Account(1, 4000, "revenue", TRUE, 0, "debit")>>

FullChart ==
    CashRevenueChart \o
    <<Account(1, 3000, "equity", TRUE, 10000, "credit"),
      Account(1, 5000, "expense", TRUE, 0, "debit"),
      Account(1, 2000, "liability", TRUE, 0, "credit"),
      [Account(1, 1900, "asset", TRUE, 777, "debit") EXCEPT !.is_active = FALSE]>>

\* drafts on Cash and Revenue only
CashRevenueLedgers ==
    { << >>,
      <<SeedEntry(1, 1, "draft", <<Line(1, 5000, 0, 1), Line(2, 0, 5000, 2)>>)>>,
      <<SeedEntry(1, 2, "draft", <<Line(1, 20000, 0, 1), Line(2, 0, 20000, 2)>>),
        SeedEntry(2, 1, "draft", <<Line(2, 5000, 0, 1), Line(1, 0, 5000, 2)>>)>> }

\* drafts on the accounts of the full chart; the first is out of balance by
\* one cent, which clean() tolerates
FullLedgers ==
    { <<SeedEntry(1, 1, "draft", <<Line(1, 2000, 0, 1), Line(5, 0, 1999, 2)>>),
        SeedEntry(2, 2, "draft", <<Line(2, 300, 0, 1), Line(1, 0, 300, 2)>>)>>,
      <<SeedEntry(1, 2, "draft", <<Line(4, 700, 0, 1), Line(1, 0, 700, 2)>>),
        SeedEntry(2, 2, "draft", <<Line(1, 5000, 0, 1), Line(2, 0, 5000, 2)>>)>> }

\* the dates the filter forms are sent with (NoDate: field left empty)
BookDates == {NoDate, 1, 2}
BookStarts == {NoDate, 2}
BookEnds == {NoDate, 1}

InitBooks ==
    /\ accounts \in {CashRevenueChart, FullChart}
    /\ fiscal_years = SeedFiscalYears
    /\ entries \in IF accounts = CashRevenueChart
                   THEN CashRevenueLedgers
                   ELSE CashRevenueLedgers \cup FullLedgers
    /\ last = Outcome("init", "ok", NoPk, NoUser)
    /\ procs = [p \in Procs |-> Idle]
    /\ report_data = NoReport

NextBooks ==
    \/ \E school \in Schools, pk \in 1..MaxEntries, user \in Users :
          JournalEntryPost(school, pk, user)
    \/ \E school \in Schools, fy \in FiscalYearIds, as_of_date \in BookDates :
          TrialBalance(school, fy, as_of_date)
    \/ \E school \in Schools, fy \in FiscalYearIds, as_of_date \in BookDates :
          BalanceSheet(school, fy, as_of_date)
    \/ \E school \in Schools, fy \in FiscalYearIds, start_date \in BookStarts,
          end_date \in BookEnds :
          IncomeStatement(school, fy, start_date, end_date)
    \/ \E school \in Schools, a \in DOMAIN accounts, start_date \in BookStarts,
          end_date \in BookEnds :
          LedgerReport(school, a, start_date, end_date)

SpecBooks == InitBooks /\ [][NextBooks]_vars

\* ------------------------------------------------ chart of accounts setup
\* accounts_data of create_default_accounts: code, name, type, parent code
AccountData(code, name, type, parent) ==
    [code |-> code, name |-> name, type |-> type, parent |-> parent]

AccountsData ==
    <<AccountData(1000, "Assets", "asset", Null),
      AccountData(1100, "Cash", "asset", 1000),
      AccountData(1110, "Bank Account", "asset", 1000),
      AccountData(1200, "Accounts Receivable", "asset", 1000),
      AccountData(1300, "Inventory", "asset", 1000),
      AccountData(1500, "Fixed Assets", "asset", 1000),
      AccountData(2000, "Liabilities", "liability", Null),
      AccountData(2100, "VAT Payable", "liability", 2000),
      AccountData(2200, "Accounts Payable", "liability", 2000),
      AccountData(2300, "Salaries Payable", "liability", 2000),
      AccountData(2400, "Loans Payable", "liability", 2000),
      AccountData(3000, "Equity", "equity", Null),
      AccountData(3100, "Capital", "equity", 3000),
      AccountData(3200, "Retained Earnings", "equity", 3000),
      AccountData(4000, "Revenue", "revenue", Null),
      AccountData(4100, "Tuition Fees", "revenue", 4000),
      AccountData(4200, "Transport Fees", "revenue", 4000),
      AccountData(4300, "Hostel Fees", "revenue", 4000),
      AccountData(4400, "Other Income", "revenue", 4000),
      AccountData(5000, "Expenses", "expense", Null),
      AccountData(5100, "Salaries Expense", "expense", 5000),
      AccountData(5200, "Rent Expense", "expense", 5000),
      AccountData(5300, "Utilities Expense", "expense", 5000),
      AccountData(5400, "Supplies Expense", "expense", 5000),
      AccountData(5500, "Maintenance Expense", "expense", 5000),
      AccountData(5600, "Marketing Expense", "expense", 5000)>>

\* a row of accounting_account with its name, parent and is_system columns
NamedAccount(school, code, name, type, parent, is_system) ==
    [school |-> school, code |-> code, name |-> name, account_type |-> type,
     parent |-> parent, is_system |-> is_system, is_active |-> TRUE,
     allow_manual_entries |-> TRUE, opening_balance |-> 0,
     opening_balance_type |-> "debit", current_balance |-> 0]

\* unique_together (school, code) and (school, name): INSERT of one account
InsertAccount(A, row) ==
    IF \E a \in DOMAIN A : /\ A[a].school = row.school
                           /\ (A[a].code = row.code \/ A[a].name = row.name)
    THEN [accounts |-> A, result |-> "IntegrityError"]
    ELSE [accounts |-> Append(A, row), result |-> "ok"]

\* created_accounts.get(code): None when the code has not been created
CreatedGet(created_accounts, code) ==
    IF code \in DOMAIN created_accounts THEN created_accounts[code] ELSE Null

\* created_accounts[code] = account
CreatedPut(created_accounts, code, account) ==
    [c \in DOMAIN created_accounts \cup {code} |->
        IF c = code THEN account ELSE created_accounts[c]]

\* the loop `for acc_data in accounts_data` from position k on
RECURSIVE CreateAccounts(_, _, _, _)
CreateAccounts(A, school, created_accounts, k) ==
    IF k > Len(AccountsData)
    THEN [accounts |-> A, created |-> created_accounts, result |-> "ok"]
    ELSE LET acc_data == AccountsData[k]
             parent == IF acc_data.parent # Null
                       THEN CreatedGet(created_accounts, acc_data.parent) ELSE Null
             r == InsertAccount(A, NamedAccount(school, acc_data.code, acc_data.name,
                                                acc_data.type, parent, TRUE))
         IN  IF r.result # "ok"
             THEN [accounts |-> r.accounts, created |-> created_accounts, result |-> r.result]
             ELSE CreateAccounts(r.accounts, school,
                                 CreatedPut(created_accounts, acc_data.code, Len(r.accounts)),
                                 k + 1)

\* `with transaction.atomic()` around the loop: an exception rolls back
\* every account the call inserted and nothing is returned
SetupAtomic(A, after) ==
    IF after.result = "ok" THEN after
    ELSE [accounts |-> A, created |-> << >>, result |-> after.result]

\* body of ChartOfAccountsSetup.create_default_accounts
CreateDefaultAccountsBody(A, school) ==
    SetupAtomic(A, CreateAccounts(A, school, << >>, 1))

SetupOutcome(op, result, school, created) ==
    [op |-> op, result |-> result, pk |-> NoPk, user |-> NoUser,
     school |-> school, created |-> created]

\* what a call that ended with r leaves behind
SetupReturned(r, op, result, school) ==
    /\ accounts' = r.accounts
    /\ last' = SetupOutcome(op, result, school, r.created)

\* ChartOfAccountsSetup.create_default_accounts
CreateDefaultAccounts(school) ==
    /\ SetupReturned(CreateDefaultAccountsBody(accounts, school),
                     "create_default_accounts",
                     CreateDefaultAccountsBody(accounts, school).result, school)
    /\ UNCHANGED <<fiscal_years, entries, procs, report_data>>

\* view setup_chart_of_accounts
SetupChartOfAccounts(school, method) ==
    /\ IF \E a \in DOMAIN accounts : accounts[a].school = school
       THEN /\ last' = SetupOutcome("setup_chart_of_accounts", "already exists", school, << >>)
            /\ UNCHANGED accounts
       ELSE IF method = "POST"
       THEN SetupReturned(CreateDefaultAccountsBody(accounts, school),
                          "setup_chart_of_accounts",
                          IF CreateDefaultAccountsBody(accounts, school).result = "ok"
                          THEN "ok" ELSE "error message", school)
       ELSE /\ last' = SetupOutcome("setup_chart_of_accounts", "form", school, << >>)
            /\ UNCHANGED accounts
    /\ UNCHANGED <<fiscal_years, entries, procs, report_data>>

\* accounts entered one by one in the form of account_create
AccountPosts ==
    { AccountData(1100, "Petty Cash", "asset", Null),
      AccountData(9000, "Cash", "asset", Null),
      AccountData(9100, "Suspense", "liability", Null) }

\* view account_create (POST of a valid form): school is no form field, so
\* the form does not validate the two unique_together constraints
AccountCreate(school, d) ==
    /\ Cardinality({a \in DOMAIN accounts : ~accounts[a].is_system}) < MaxCustomAccounts
    /\ LET r == InsertAccount(accounts, NamedAccount(school, d.code, d.name, d.type,
                                                     d.parent, FALSE))
       IN  /\ accounts' = r.accounts
           /\ last' = SetupOutcome("account_create", r.result, school, << >>)
    /\ UNCHANGED <<fiscal_years, entries, procs, report_data>>

\* tenants without accounts, whose charts are set up and extended
InitSetup ==
    /\ accounts = << >>
    /\ fiscal_years = SeedFiscalYears
    /\ entries = << >>
    /\ last = Outcome("init", "ok", NoPk, NoUser)
    /\ procs = [p \in Procs |-> Idle]
    /\ report_data = NoReport

NextSetup ==
    \/ \E school \in Schools : CreateDefaultAccounts(school)
    \/ \E school \in Schools, method \in {"GET", "POST"} : SetupChartOfAccounts(school, method)
    \/ \E school \in Schools, d \in AccountPosts : AccountCreate(school, d)

SpecSetup == InitSetup /\ [][NextSetup]_vars

\* ------------------------------------------------------ concurrent posting
\* a handler of journal_entry_post between two of its statements: the lines
\* of its entry still to go through in the loop of post(), and the balance
\* get_balance() returned to update_current_balance
PostFrame(pc, user, pk, lines, balance, result) ==
    [pc |-> pc, user |-> user, instance |-> Idle.instance, forms |-> << >>,
     pk |-> pk, result |-> result, lines |-> lines, balance |-> balance]

\* journal_entry_post from get_object_or_404 to the self.save() of post(),
\* followed by the query of `self.lines.all()`
PostBegin(p, school, pk, user) ==
    /\ procs[p].pc \in {"idle", "done"}
    /\ IF pk \notin DOMAIN entries \/ entries[pk].school # school
       THEN /\ procs' = [procs EXCEPT ![p] = PostFrame("done", user, pk, << >>, 0, "Http404")]
            /\ last' = Outcome("journal_entry_post", "Http404", pk, user)
            /\ UNCHANGED entries
       ELSE LET r == PostSave(entries, pk, entries[pk], user)
            IN  /\ entries' = r.entries
                /\ IF r.result = "ok" /\ r.entries[pk].lines # << >>
                   THEN /\ procs' = [procs EXCEPT ![p] =
                               PostFrame("posted", user, pk, r.entries[pk].lines, 0, "none")]
                        /\ UNCHANGED last
                   ELSE /\ procs' = [procs EXCEPT ![p] =
                               PostFrame("done", user, pk, << >>, 0, r.result)]
                        /\ last' = Outcome("journal_entry_post", r.result, pk, user)
    /\ UNCHANGED <<accounts, fiscal_years, report_data>>

\* update_current_balance, first statement: `self.get_balance()`
PostGetBalance(p) ==
    /\ procs[p].pc = "posted"
    /\ procs' = [procs EXCEPT
                    ![p].pc = "read",
                    ![p].balance = GetBalance(accounts, entries,
                                              Head(procs[p].lines).account, NoDate)]
    /\ UNCHANGED <<accounts, fiscal_years, entries, last, report_data>>

\* update_current_balance, second statement:
\* `self.save(update_fields=['current_balance'])`, then the next line
PostSaveBalance(p) ==
    /\ procs[p].pc = "read"
    /\ accounts' = [accounts EXCEPT
                       ![Head(procs[p].lines).account].current_balance = procs[p].balance]
    /\ IF Tail(procs[p].lines) # << >>
       THEN /\ procs' = [procs EXCEPT ![p].pc = "posted", ![p].lines = Tail(@)]
            /\ UNCHANGED last
       ELSE /\ procs' = [procs EXCEPT ![p].pc = "done", ![p].lines = << >>,
                                      ![p].result = "ok"]
            /\ last' = Outcome("journal_entry_post", "ok", procs[p].pk, procs[p].user)
    /\ UNCHANGED <<fiscal_years, entries, report_data>>

\* post requests served concurrently, one statement of a handler at a time
NextPost ==
    \/ \E p \in Procs, school \in Schools, pk \in 1..MaxEntries, user \in Users :
          PostBegin(p, school, pk, user)
    \/ \E p \in Procs : PostGetBalance(p)
    \/ \E p \in Procs : PostSaveBalance(p)

SpecPost == Init /\ [][NextPost]_vars

\* ------------------------------------------- books without opening balances
\* the chart with the integration accounts, every opening balance zero
ZeroChart ==
    [a \in DOMAIN IntegAccounts |-> [IntegAccounts[a] EXCEPT !.opening_balance = 0]]

\* a school whose accounts carry no opening balance starts with an empty
\* journal; entries are created through the service and the form, posted,
\* billing documents are posted to the ledger, the trial balance is rendered
InitZero ==
    /\ accounts = ZeroChart
    /\ fiscal_years = SeedFiscalYears
    /\ entries = << >>
    /\ last = Outcome("init", "ok", NoPk, NoUser)
    /\ procs = [p \in Procs |-> Idle]
    /\ report_data = NoReport

NextZero ==
    \/ \E c \in ServiceCalls, description \in Descriptions :
          CreateJournalEntry(fiscal_years[c.fy].school, c.fy, c.date, description,
                             c.lines_data, c.user, c.auto_post)
    \/ \E r \in FormPosts, user \in Users, description \in Descriptions :
          JournalEntryCreate(r.school, user, r.fy, r.date, description, r.forms)
    \/ \E school \in Schools, pk \in 1..MaxEntries, user \in Users :
          JournalEntryPost(school, pk, user)
    \/ \E i \in DOMAIN Invoices, user \in Users : PostInvoiceToLedger(i, user)
    \/ \E j \in DOMAIN Payments, user \in Users : PostPaymentToLedger(j, user)
    \/ \E school \in Schools, fy \in FiscalYearIds, as_of_date \in BookDates :
          TrialBalance(school, fy, as_of_date)

SpecZero == InitZero /\ [][NextZero]_vars

TypeOK ==
    /\ Len(entries) <= MaxEntries
    /\ \A i \in DOMAIN entries : entries[i].status \in Statuses
    /\ \A p \in Procs : procs[p].pc \in {"idle", "generated", "saved", "done", "posted", "read"}

\* ================================================================ claims
ReportDates == {NoDate, 1, 2}

\* positions <<pk, k>> of all stored lines
LinePositions(E) == UNION {{<<i, k>> : k \in DOMAIN E[i].lines} : i \in DOMAIN E}

RECURSIVE SetSum(_, _, _)
SetSum(E, S, side) ==
    IF S = {} THEN 0
    ELSE LET p == CHOOSE q \in S : TRUE
             l == E[p[1]].lines[p[2]]
         IN  (IF side = "debit" THEN l.debit_amount ELSE l.credit_amount)
             + SetSum(E, S \ {p}, side)

\* the lines of account a in Posted entries (dated <= d when d is given;
\* of fiscal years of the account's own school when own is set)
PostedLinesOf(a, d, own) ==
    {p \in LinePositions(entries) :
        /\ entries[p[1]].lines[p[2]].account = a
        /\ entries[p[1]].status = "posted"
        /\ (d # NoDate => entries[p[1]].date <= d)
        /\ (own => fiscal_years[entries[p[1]].fiscal_year].school = accounts[a].school)}

C2_TerminalStatuses ==
    [][\A i \in DOMAIN entries :
          entries[i].status \in {"posted", "cancelled"} =>
              /\ i \in DOMAIN entries'
              /\ entries'[i].status = entries[i].status]_vars

AsOfDates == {NoDate, 1}
StartDates == {NoDate, 2}

\* every balance and report amount over the journal E
Reports(A, E) ==
    [balance |-> [a \in AccountIds, d \in AsOfDates |-> GetBalance(A, E, a, d)],
     trial |-> [s \in Schools, d \in AsOfDates |-> GenerateTrialBalance(A, E, s, d)],
     sheet |-> [s \in Schools, d \in AsOfDates |-> GenerateBalanceSheet(A, E, s, d)],
     income |-> [s \in Schools, d \in StartDates, e \in AsOfDates |->
                    GenerateIncomeStatement(A, E, s, 1, d, e)],
     ledger |-> [a \in AccountIds, d \in StartDates, e \in AsOfDates |->
                    GenerateLedgerReport(A, E, a, d, e)]]

\* C4: only lines of Posted entries are counted: every balance and every
\* report over the journal equals the one over the journal from which all
\* Draft and Cancelled entries are removed.
C4_OnlyPostedVisible ==
    Reports(accounts, entries)
        = Reports(accounts, SelectSeq(entries, LAMBDA e : e.status = "posted"))

C4_Witness ==
    /\ \E i \in DOMAIN entries : entries[i].status # "posted" /\ entries[i].lines # << >>
    /\ \E i \in DOMAIN entries : entries[i].status = "posted" /\ entries[i].lines # << >>

\* the net of the posted lines in S for an account of the given type
NetOf(S, type) ==
    IF type \in {"asset", "expense"}
    THEN SetSum(entries, S, "debit") - SetSum(entries, S, "credit")
    ELSE SetSum(entries, S, "credit") - SetSum(entries, S, "debit")

\* the balance as C5 words it, over the line set S
SidedBalance(a, S) ==
    LET D0 == SetSum(entries, S, "debit")
        C0 == SetSum(entries, S, "credit")
        D == IF accounts[a].opening_balance_type = "debit"
             THEN D0 + accounts[a].opening_balance ELSE D0
        C == IF accounts[a].opening_balance_type = "debit"
             THEN C0 ELSE C0 + accounts[a].opening_balance
    IN  IF accounts[a].account_type \in {"asset", "expense"} THEN D - C ELSE C - D

FailsValidation(c) ==
    \/ c.date < fiscal_years[c.fy].start_date
    \/ c.date > fiscal_years[c.fy].end_date
    \/ Abs(SumDebit(c.lines_data) - SumCredit(c.lines_data)) > Tolerance

\* C7: create_journal_entry is all-or-nothing: a call whose lines are out of
\* balance or whose date is outside the fiscal year ends in an error, and a
\* call that ends in an error leaves the stored entries, lines and accounts
\* (and with them the next entry number) as they were before the call.
C7_CreateAllOrNothing ==
    /\ [](\A c \in ServiceCalls :
             LET r == Atomic(accounts, entries,
                             CreateJournalEntryBody(accounts, entries,
                                 fiscal_years[c.fy].school, c.fy, c.date, "memo",
                                 c.lines_data, c.user, c.auto_post))
                 next == NewEntry(fiscal_years[c.fy].school, c.fy, c.date, "memo", "draft")
             IN  /\ FailsValidation(c) => r.result # "ok"
                 /\ r.result # "ok" =>
                       /\ r.entries = entries
                       /\ r.accounts = accounts
                       /\ GenerateEntryNumber(r.entries, next)
                            = GenerateEntryNumber(entries, next))
    /\ [][(last'.op = "create_journal_entry" /\ last'.result # "ok") =>
             /\ entries' = entries
             /\ accounts' = accounts
             /\ fiscal_years' = fiscal_years]_vars

C7_Witness ==
    /\ last.op = "create_journal_entry"
    /\ last.result = "ValidationError"
    /\ last.pk = NoPk

\* C9: after a successful post (by the post view or by an auto-posting
\* creation) the stored status is Posted, posted_by is the user, posted_at is
\* set and the stored current_balance of every account on the entry's lines
\* equals get_balance() of that account.
C9_PostEffects ==
    (/\ last.result = "ok"
     /\ \/ last.op = "journal_entry_post"
        \/ last.op = "create_journal_entry" /\ entries[last.pk].status = "posted")
    => /\ entries[last.pk].status = "posted"
       /\ entries[last.pk].posted_by = last.user
       /\ entries[last.pk].posted_at # Null
       /\ \A k \in DOMAIN entries[last.pk].lines :
             LET a == entries[last.pk].lines[k].account
             IN  accounts[a].current_balance = GetBalance(accounts, entries, a, NoDate)

C9_Witness ==
    /\ last.op = "journal_entry_post"
    /\ last.result = "ok"
    /\ Len(entries[last.pk].lines) >= 2
    /\ entries[last.pk].lines[1].account # entries[last.pk].lines[2].account
    /\ accounts[entries[last.pk].lines[2].account].current_balance # 0

\* C10: no entry of a fiscal year that is closed becomes Posted: in no step
\* does an entry dated within a closed year of its own go from not Posted
\* (or not existing) to Posted.
C10_ClosedYearRefusesPosting ==
    [][\A i \in DOMAIN entries' :
          (/\ entries'[i].status = "posted"
           /\ fiscal_years[entries'[i].fiscal_year].is_closed
           /\ entries'[i].date >= fiscal_years[entries'[i].fiscal_year].start_date
           /\ entries'[i].date <= fiscal_years[entries'[i].fiscal_year].end_date)
          => (i \in DOMAIN entries /\ entries[i].status = "posted")]_vars

\* C8: concurrent creators for one fiscal year all succeed with pairwise
\* distinct numbers: every creator that has drawn its number and run its save
\* has its row stored under that number, and no two creators have drawn the
\* same number.
C8_ConcurrentCreatorsAllStored ==
    \A p \in Procs :
        (procs[p].pc \in {"saved", "done"} /\ procs[p].instance.entry_number # NoNumber) =>
            /\ procs[p].pk \in DOMAIN entries
            /\ entries[procs[p].pk].entry_number = procs[p].instance.entry_number
            /\ \A q \in Procs \ {p} :
                  procs[q].instance.entry_number # procs[p].instance.entry_number

\* ---------------------------------------------------- billing integration
\* the preconditions of post_invoice_to_ledger hold for invoice i: it carries
\* the attributes read, its total is taxable amount plus VAT, an active fiscal
\* year of its school covers its issue date and the accounts 1200 (Asset),
\* 4000 (Revenue) and 2100 (Liability) of its school exist
InvoiceReady(i) ==
    LET invoice == Invoices[i]
    IN  /\ (InvoiceLookupAttributes \cup InvoiceLineAttributes) \subseteq DOMAIN invoice
        /\ invoice.total_amount = invoice.total_taxable_amount + invoice.total_vat
        /\ ActiveFiscalYear(fiscal_years, invoice.school, invoice.issue_date) # Null
        /\ AccountByCode(accounts, invoice.school, 1200, "asset") # Null
        /\ AccountByCode(accounts, invoice.school, 4000, "revenue") # Null
        /\ AccountByCode(accounts, invoice.school, 2100, "liability") # Null

\* C11: a call of post_invoice_to_ledger whose preconditions hold creates one
\* Posted entry with exactly three lines, DR 1200 total_amount, CR 4000
\* total_taxable_amount and CR 2100 total_vat, whose totals are equal
C11_InvoicePostsThreeLines ==
    (last.op = "post_invoice_to_ledger" /\ InvoiceReady(last.doc)) =>
        /\ last.result = "ok"
        /\ last.pk \in DOMAIN entries
        /\ LET e == entries[last.pk]
               invoice == Invoices[last.doc]
           IN  /\ e.status = "posted"
               /\ Len(e.lines) = 3
               /\ accounts[e.lines[1].account].code = 1200
               /\ e.lines[1].debit_amount = invoice.total_amount
               /\ e.lines[1].credit_amount = 0
               /\ accounts[e.lines[2].account].code = 4000
               /\ e.lines[2].credit_amount = invoice.total_taxable_amount
               /\ e.lines[2].debit_amount = 0
               /\ accounts[e.lines[3].account].code = 2100
               /\ e.lines[3].credit_amount = invoice.total_vat
               /\ e.lines[3].debit_amount = 0
               /\ e.total_debit = e.total_credit

\* no active fiscal year of the school covers the date
NoActiveYear(school, date) ==
    ~ \E f \in DOMAIN fiscal_years :
          /\ fiscal_years[f].school = school
          /\ fiscal_years[f].is_active
          /\ fiscal_years[f].start_date <= date
          /\ date <= fiscal_years[f].end_date

\* the school has no account of that code and type
NoAccount(school, code, type) ==
    ~ \E a \in DOMAIN accounts :
          /\ accounts[a].school = school
          /\ accounts[a].code = code
          /\ accounts[a].account_type = type

\* a precondition of post_invoice_to_ledger is missing for invoice i
InvoiceUnready(i) ==
    LET invoice == Invoices[i]
    IN  /\ InvoiceLookupAttributes \subseteq DOMAIN invoice
        /\ \/ NoActiveYear(invoice.school, invoice.issue_date)
           \/ NoAccount(invoice.school, 1200, "asset")
           \/ NoAccount(invoice.school, 4000, "revenue")
           \/ NoAccount(invoice.school, 2100, "liability")

\* a precondition of post_payment_to_ledger is missing for payment j
PaymentUnready(j) ==
    LET payment == Payments[j]
    IN  /\ PaymentLookupAttributes \subseteq DOMAIN payment
        /\ "school" \in DOMAIN payment.invoice
        /\ \/ NoActiveYear(payment.invoice.school, payment.payment_date)
           \/ NoAccount(payment.invoice.school,
                        IF payment.payment_method \in {"cash", "card"} THEN 1100 ELSE 1110,
                        "asset")
           \/ NoAccount(payment.invoice.school, 1200, "asset")

\* C12: a call of post_invoice_to_ledger or post_payment_to_ledger made while
\* no active fiscal year covers the document's date, or while a required
\* account (1200, 4000, 2100; 1100 or 1110 and 1200) is missing, raises
\* ValueError and leaves the journal entries, their lines and every account
\* balance as they were
C12_MissingPreconditionRaises ==
    [][ /\ (last'.op = "post_invoice_to_ledger" /\ InvoiceUnready(last'.doc)) =>
              /\ last'.result = "ValueError"
              /\ entries' = entries
              /\ accounts' = accounts
        /\ (last'.op = "post_payment_to_ledger" /\ PaymentUnready(last'.doc)) =>
              /\ last'.result = "ValueError"
              /\ entries' = entries
              /\ accounts' = accounts ]_vars

\* the invoice whose date lies in fiscal year 1 was refused because the year
\* had been switched to inactive
C12_Witness ==
    /\ last.op = "post_invoice_to_ledger"
    /\ last.doc = 1
    /\ ~ fiscal_years[1].is_active
    /\ last.result = "ValueError"

\* the preconditions of post_payment_to_ledger hold for payment j
PaymentReady(j) ==
    LET payment == Payments[j]
    IN  /\ (PaymentLookupAttributes \cup PaymentLineAttributes) \subseteq DOMAIN payment
        /\ "school" \in DOMAIN payment.invoice
        /\ ~ PaymentUnready(j)

\* C13: a call of post_payment_to_ledger whose preconditions hold creates one
\* Posted entry with exactly two lines, DR 1100 (cash or card) or 1110 (any
\* other method) and CR 1200, both of the payment's amount, and the stored
\* balances of the two accounts follow
C13_PaymentPostsTwoLines ==
    (last.op = "post_payment_to_ledger" /\ PaymentReady(last.doc)) =>
        /\ last.result = "ok"
        /\ last.pk \in DOMAIN entries
        /\ LET e == entries[last.pk]
               payment == Payments[last.doc]
           IN  /\ e.status = "posted"
               /\ Len(e.lines) = 2
               /\ accounts[e.lines[1].account].code =
                      IF payment.payment_method \in {"cash", "card"} THEN 1100 ELSE 1110
               /\ e.lines[1].debit_amount = payment.amount
               /\ e.lines[1].credit_amount = 0
               /\ accounts[e.lines[2].account].code = 1200
               /\ e.lines[2].credit_amount = payment.amount
               /\ e.lines[2].debit_amount = 0
               /\ \A k \in 1..2 :
                     accounts[e.lines[k].account].current_balance =
                         GetBalance(accounts, entries, e.lines[k].account, NoDate)

C15_BalancedWithinOneCent ==
    report_data.kind = "trial_balance" =>
        (report_data.data.is_balanced <=>
            Abs(report_data.data.total_debits - report_data.data.total_credits) <= Tolerance)

\* the ledger of the trial-balance scenario: Cash (Asset, opening balance
\* 100.00 debit), Revenue, and one Posted entry DR Cash 50.00 / CR Revenue
\* 50.00, with the trial balance of school 1 rendered as of a date that
\* includes the entry, by the request served last
CashSaleBooks ==
    /\ [a \in DOMAIN accounts |-> [accounts[a] EXCEPT !.current_balance = 0]]
           = CashRevenueChart
    /\ Len(entries) = 1
    /\ entries[1].status = "posted"
    /\ entries[1].lines = <<Line(1, 5000, 0, 1), Line(2, 0, 5000, 2)>>
    /\ last.op = "trial_balance"
    /\ report_data.kind = "trial_balance"
    /\ report_data.input[1] = 1
    /\ report_data.input[2] = NoDate \/ report_data.input[2] >= entries[1].date

\* C16 as stated: Cash is listed with debit_balance 150.00, Revenue with
\* credit_balance 50.00, and the report says is_balanced = true
C16_CashSaleBalanced ==
    CashSaleBooks =>
        /\ report_data.data.trial_balance =
               <<[code |-> 1000, debit_balance |-> 15000, credit_balance |-> 0],
                 [code |-> 4000, debit_balance |-> 0, credit_balance |-> 5000]>>
        /\ report_data.data.is_balanced

\* C16: for the ledger with Cash (opening 100.00 debit), Revenue and one
\* Posted entry DR Cash 50.00 / CR Revenue 50.00 the trial balance lists Cash
\* with debit_balance 150.00 and Revenue with credit_balance 50.00; its totals
\* are 150.00 and 50.00 and it reports is_balanced = false
C16_CashSaleRows ==
    CashSaleBooks =>
        /\ report_data.data.trial_balance =
               <<[code |-> 1000, debit_balance |-> 15000, credit_balance |-> 0],
                 [code |-> 4000, debit_balance |-> 0, credit_balance |-> 5000]>>
        /\ report_data.data.total_debits = 15000
        /\ report_data.data.total_credits = 5000
        /\ ~ report_data.data.is_balanced

\* the scenario's trial balance rendered without an as-of date
C16_Witness == CashSaleBooks /\ report_data.input[2] = NoDate

RECURSIVE SumBalances(_)
SumBalances(rs) == IF rs = << >> THEN 0 ELSE Head(rs).balance + SumBalances(Tail(rs))

\* the rows a bucket of the balance sheet should hold for accounts of `type`
BucketOf(school, as_of_date, type) ==
    { [code |-> accounts[a].code,
       balance |-> Abs(GetBalance(accounts, entries, a, as_of_date))] :
        a \in {b \in DOMAIN accounts :
                  /\ accounts[b].school = school
                  /\ accounts[b].is_active
                  /\ accounts[b].account_type = type
                  /\ GetBalance(accounts, entries, b, as_of_date) # 0} }

\* the balance sheet just rendered holds, in each of its three buckets, one
\* row per active account of that type with a nonzero balance, carrying the
\* absolute balance, and each total is the sum of its bucket
BalanceSheetBuckets ==
    (last.op = "balance_sheet" /\ report_data.kind = "balance_sheet") =>
        LET school == report_data.input[1]
            as_of_date == report_data.input[2]
            data == report_data.data
            matches(rows, type) ==
                /\ {rows[k] : k \in DOMAIN rows} = BucketOf(school, as_of_date, type)
                /\ Len(rows) = Cardinality(BucketOf(school, as_of_date, type))
        IN  /\ matches(data.assets, "asset")
            /\ matches(data.liabilities, "liability")
            /\ matches(data.equity, "equity")
            /\ data.total_assets = SumBalances(data.assets)
            /\ data.total_liabilities = SumBalances(data.liabilities)
            /\ data.total_equity = SumBalances(data.equity)

\* C17: the balance sheet puts every active Asset, Liability and Equity
\* account with a nonzero balance in the bucket of its type with its absolute
\* balance, Revenue and Expense accounts in none, each total is the sum of
\* its bucket, and is_balanced is true exactly when total_assets and
\* total_liabilities + total_equity differ by at most one cent
C17_BalanceSheet ==
    /\ BalanceSheetBuckets
    /\ report_data.kind = "balance_sheet" =>
          (report_data.data.is_balanced <=>
              Abs(report_data.data.total_assets
                  - (report_data.data.total_liabilities + report_data.data.total_equity))
              <= Tolerance)

\* positions of the account's lines in Posted entries dated within [s, e]
LinesInRange(a, s, e) ==
    {p \in LinePositions(entries) :
        /\ entries[p[1]].status = "posted"
        /\ entries[p[1]].date >= s
        /\ entries[p[1]].date <= e
        /\ entries[p[1]].lines[p[2]].account = a}

\* credits minus debits of the account in the range
CreditsLessDebits(a, s, e) ==
    SetSum(entries, LinesInRange(a, s, e), "credit")
    - SetSum(entries, LinesInRange(a, s, e), "debit")

\* the sum of credits minus debits over the accounts in S
RECURSIVE SumCreditsLessDebits(_, _, _)
SumCreditsLessDebits(S, s, e) ==
    IF S = {} THEN 0
    ELSE LET a == CHOOSE b \in S : TRUE
         IN  CreditsLessDebits(a, s, e) + SumCreditsLessDebits(S \ {a}, s, e)

ActiveOfType(school, type) ==
    {a \in DOMAIN accounts : /\ accounts[a].school = school
                             /\ accounts[a].is_active
                             /\ accounts[a].account_type = type}

\* C18: in the income statement for [start, end] (the fiscal year's bounds
\* when left empty) total_revenue is the sum over active Revenue accounts of
\* credits minus debits, total_expenses the sum over active Expense accounts
\* of debits minus credits, over lines of Posted entries dated in the range,
\* and net_income is their difference; also when a Revenue account has more
\* debits than credits
C18_IncomeStatementNets ==
    (last.op = "income_statement" /\ report_data.kind = "income_statement") =>
        LET school == report_data.input[1]
            fy == report_data.input[2]
            s == IF report_data.input[3] = NoDate
                 THEN fiscal_years[fy].start_date ELSE report_data.input[3]
            e == IF report_data.input[4] = NoDate
                 THEN fiscal_years[fy].end_date ELSE report_data.input[4]
            data == report_data.data
        IN  /\ data.total_revenue =
                   SumCreditsLessDebits(ActiveOfType(school, "revenue"), s, e)
            /\ data.total_expenses =
                   0 - SumCreditsLessDebits(ActiveOfType(school, "expense"), s, e)
            /\ data.net_income = data.total_revenue - data.total_expenses

\* positions of the account's lines in Posted entries within the optional
\* bounds of the ledger report
LedgerLines(a, start_date, end_date) ==
    {p \in LinePositions(entries) :
        /\ entries[p[1]].status = "posted"
        /\ (start_date # NoDate => entries[p[1]].date >= start_date)
        /\ (end_date # NoDate => entries[p[1]].date <= end_date)
        /\ entries[p[1]].lines[p[2]].account = a}

\* row r of the ledger report shows the line at position p
ShowsLine(r, p) ==
    /\ r.date = entries[p[1]].date
    /\ r.entry_number = entries[p[1]].entry_number
    /\ r.debit = entries[p[1]].lines[p[2]].debit_amount
    /\ r.credit = entries[p[1]].lines[p[2]].credit_amount

\* C19: the ledger report lists exactly the account's lines of Posted entries
\* in the date range, ascending by (entry date, entry number); the running
\* balance starts from the opening balance signed by opening_balance_type,
\* each row adds debit - credit (Asset, Expense) or credit - debit (other
\* types) to the balance before it, and closing_balance is the last row's
\* balance
C19_LedgerReport ==
    (last.op = "ledger_report" /\ report_data.kind = "ledger_report") =>
        LET a == report_data.input[1]
            P == LedgerLines(a, report_data.input[2], report_data.input[3])
            rows == report_data.data.ledger_entries
            opening == IF accounts[a].opening_balance_type = "debit"
                       THEN accounts[a].opening_balance
                       ELSE 0 - accounts[a].opening_balance
            step(r) == IF accounts[a].account_type \in {"asset", "expense"}
                       THEN r.debit - r.credit
                       ELSE r.credit - r.debit
        IN  /\ Len(rows) = Cardinality(P)
            /\ \A p \in P : \E k \in DOMAIN rows : ShowsLine(rows[k], p)
            /\ \A k \in DOMAIN rows : \E p \in P : ShowsLine(rows[k], p)
            /\ \A k \in 1..(Len(rows) - 1) :
                  \/ rows[k].date < rows[k + 1].date
                  \/ /\ rows[k].date = rows[k + 1].date
                     /\ ~EntryNumberLess(rows[k + 1].entry_number, rows[k].entry_number)
            /\ \A k \in DOMAIN rows :
                  rows[k].balance =
                      (IF k = 1 THEN opening ELSE rows[k - 1].balance) + step(rows[k])
            /\ rows # << >> => report_data.data.closing_balance = rows[Len(rows)].balance

\* a ledger of Cash (opening balance 100.00 debit) with two rows, the entry
\* numbered second being dated first: 100.00 - 50.00 = 50.00, then
\* 50.00 + 200.00 = 250.00, closing balance 250.00
C19_Witness ==
    /\ last.op = "ledger_report"
    /\ report_data.kind = "ledger_report"
    /\ Len(report_data.data.ledger_entries) = 2
    /\ EntryNumberLess(report_data.data.ledger_entries[2].entry_number,
                       report_data.data.ledger_entries[1].entry_number)
    /\ report_data.data.ledger_entries[1].balance = 5000
    /\ report_data.data.closing_balance = 25000

ReportOps == {"trial_balance", "balance_sheet", "income_statement", "ledger_report"}

\* the amounts the report named in rendered context r has in tables A, E
ReportAgain(A, E, r) ==
    CASE r.kind = "trial_balance" ->
             GenerateTrialBalance(A, E, r.input[1], r.input[2])
      [] r.kind = "balance_sheet" ->
             GenerateBalanceSheet(A, E, r.input[1], r.input[2])
      [] r.kind = "income_statement" ->
             GenerateIncomeStatement(A, E, r.input[1], r.input[2], r.input[3], r.input[4])
      [] r.kind = "ledger_report" ->
             GenerateLedgerReport(A, E, r.input[1], r.input[2], r.input[3])

SchoolAccounts(A, school) == {a \in DOMAIN A : A[a].school = school}

\* the school's accounts in A are exactly the standard chart: one account
\* per row of accounts_data, with its code, name and type, and every
\* non-root account has as parent the root of its type, created before it
IsDefaultChart(A, school) ==
    /\ Cardinality(SchoolAccounts(A, school)) = Len(AccountsData)
    /\ \A k \in DOMAIN AccountsData :
          \E a \in SchoolAccounts(A, school) :
              /\ A[a].code = AccountsData[k].code
              /\ A[a].name = AccountsData[k].name
              /\ A[a].account_type = AccountsData[k].type
              /\ IF AccountsData[k].parent = Null
                 THEN A[a].parent = Null
                 ELSE /\ A[a].parent \in SchoolAccounts(A, school)
                      /\ A[a].parent < a
                      /\ A[A[a].parent].code = AccountsData[k].parent
                      /\ A[A[a].parent].account_type = A[a].account_type
                      /\ A[A[a].parent].parent = Null

\* the map returned takes every standard code to the school's account of
\* that code
IsCodeMap(A, school, created) ==
    /\ DOMAIN created = {AccountsData[k].code : k \in DOMAIN AccountsData}
    /\ \A c \in DOMAIN created :
          created[c] \in SchoolAccounts(A, school) /\ A[created[c]].code = c

\* C21: create_default_accounts called for a tenant without accounts creates
\* exactly the 26 standard accounts, each non-root account under the root of
\* its type; called again for the same tenant it succeeds, returns the same
\* code -> account map and leaves exactly those 26 accounts
C21_SetupIdempotent ==
    [][ \A school \in Schools :
          ( /\ last'.op = "create_default_accounts"
            /\ last'.school = school
            /\ \/ SchoolAccounts(accounts, school) = {}
               \/ IsDefaultChart(accounts, school) ) =>
                /\ last'.result = "ok"
                /\ IsDefaultChart(accounts', school)
                /\ IsCodeMap(accounts', school, last'.created)
                /\ Len(AccountsData) = 26 ]_vars

\* the first call alone: on a tenant without accounts it creates the chart
FirstSetupCreatesChart ==
    [][ \A school \in Schools :
          ( /\ last'.op = "create_default_accounts"
            /\ last'.school = school
            /\ SchoolAccounts(accounts, school) = {} ) =>
                /\ last'.result = "ok"
                /\ IsDefaultChart(accounts', school)
                /\ IsCodeMap(accounts', school, last'.created)
                /\ Len(AccountsData) = 26 ]_vars

\* ------------------------------------------------------ lines of entries
\* exactly one of the two amounts of the line is greater than zero
OneSided(l) ==
    \/ l.debit_amount > 0 /\ l.credit_amount = 0
    \/ l.debit_amount = 0 /\ l.credit_amount > 0

\* balanced line lists in which one line has both amounts, or neither
BadLineLists ==
    { <<LineData(1, 5000, 5000), LineData(2, 3000, 3000)>>,
      <<LineData(1, 5000, 0), LineData(2, 0, 5000), LineData(2, 0, 0)>> }

\* create_journal_entry called now with lines_data (fiscal year 1, auto_post)
ServiceResult(lines_data) ==
    Atomic(accounts, entries,
           CreateJournalEntryBody(accounts, entries, 1, 1, 1, "memo", lines_data, "u1", TRUE))

\* the call ends in an error and leaves the journal as it is
Refused(r) == r.result # "ok" /\ r.entries = entries /\ r.accounts = accounts

SystemOnlyAccounts == {a \in DOMAIN accounts : ~accounts[a].allow_manual_entries}

\* balanced, one-sided line lists with a line on such an account
SystemOnlyLineLists ==
    { <<LineData(5, 5000, 0), LineData(2, 0, 5000)>>,
      <<LineData(1, 700, 0), LineData(5, 0, 700)>> }

ValidLineLists ==
    { <<LineData(1, 5000, 0), LineData(2, 0, 5000)>>,
      <<LineData(1, 300, 0), LineData(3, 200, 0), LineData(2, 0, 500)>> }

\* the lines stored for lines_data when they are numbered 1..n in input order
Numbered(lines_data) ==
    [k \in DOMAIN lines_data |->
        Line(lines_data[k].account, lines_data[k].debit_amount,
             lines_data[k].credit_amount, k)]

\* r is the outcome of a creation that succeeded and added one entry whose
\* lines are those of lines_data numbered 1..n
StoredNumbered(r, lines_data) ==
    /\ r.result = "ok"
    /\ Len(r.entries) = Len(entries) + 1
    /\ r.entries[Len(r.entries)].lines = Numbered(lines_data)

\* journal_entry_create answering now a valid POST with these line forms
FormResult(forms) ==
    JournalEntryCreateBody(accounts, entries, NewEntry(1, 1, 1, "memo", "draft"), forms)

\* line numbers within one entry are pairwise distinct
DistinctLineNumbers ==
    \A i \in DOMAIN entries : \A k, m \in DOMAIN entries[i].lines :
        k # m => entries[i].lines[k].line_number # entries[i].lines[m].line_number

\* C24: the line numbers of one entry are pairwise distinct, and a creation
\* given a valid balanced list of n >= 2 lines succeeds on the service path
\* and on the form path and stores exactly the n lines numbered 1..n in
\* input order
C24_CreationNumbersLines ==
    /\ DistinctLineNumbers
    /\ Len(entries) < MaxEntries =>
          \A ls \in ValidLineLists :
              /\ FormsetIsValid(accounts, ls)
              /\ StoredNumbered(ServiceResult(ls), ls)
              /\ StoredNumbered(FormResult(ls), ls)

\* C25: a request to journal_entry_create that does not end in success
\* leaves no entry and no line behind: the journal is as it was before
C25_FormCreationAllOrNothing ==
    [][(last'.op = "journal_entry_create" /\ last'.result # "ok")
          => entries' = entries]_vars

\* ------------------------------------------- books without opening balances
\* every account of the school is active and has opening balance zero
ZeroOpenings(school) ==
    \A a \in DOMAIN accounts :
        accounts[a].school = school =>
            accounts[a].is_active /\ accounts[a].opening_balance = 0

\* C26: when every account of a school is active with opening balance zero,
\* the trial balance of the school rendered after any sequence of creations
\* and postings reports is_balanced = true
C26_ZeroOpeningsBalanced ==
    \A school \in Schools :
        (/\ ZeroOpenings(school)
         /\ last.op = "trial_balance"
         /\ report_data.kind = "trial_balance"
         /\ report_data.input[1] = school)
        => report_data.data.is_balanced

\* C27: the closing_balance of a ledger report rendered without start date
\* equals get_balance of the account as of the report's end date (or without
\* a date when the report has no end date either)
C27_ClosingIsGetBalance ==
    (/\ last.op = "ledger_report"
     /\ report_data.kind = "ledger_report"
     /\ report_data.input[2] = NoDate)
    => report_data.data.closing_balance
          = GetBalance(accounts, entries, report_data.input[1], report_data.input[3])

\* ------------------------------------------------------ concurrent posting
\* no post request is between two of its statements
PostsFinished == \A p \in Procs : procs[p].pc \in {"idle", "done"}

\* the accounts on the lines of the entries that finished requests posted
PostedAccounts ==
    UNION { {entries[procs[p].pk].lines[k].account : k \in DOMAIN entries[procs[p].pk].lines} :
              p \in {q \in Procs : procs[q].pc = "done" /\ procs[q].result = "ok"} }

\* C28: under every interleaving of concurrent post requests on different
\* entries that share an account, once the requests have finished the stored
\* current_balance of each account on their lines equals get_balance()
C28_NoStaleBalance ==
    PostsFinished =>
        \A a \in PostedAccounts :
            accounts[a].current_balance = GetBalance(accounts, entries, a, NoDate)

\* -------------------------------------------------------- tenant isolation
\* C29: the fiscal year of every entry belongs to the entry's school, and
\* every line of the entry refers to an account of that school
C29_TenantIsolation ==
    \A i \in DOMAIN entries :
        /\ fiscal_years[entries[i].fiscal_year].school = entries[i].school
        /\ \A k \in DOMAIN entries[i].lines :
              accounts[entries[i].lines[k].account].school = entries[i].school

\* ----------------------------------------------------- both sides present
\* C30: every Posted entry has at least one line with a debit and at least
\* one line with a credit; an entry without lines is never Posted
C30_PostedHasBothSides ==
    \A i \in DOMAIN entries :
        entries[i].status = "posted" =>
            /\ \E k \in DOMAIN entries[i].lines : entries[i].lines[k].debit_amount > 0
            /\ \E k \in DOMAIN entries[i].lines : entries[i].lines[k].credit_amount > 0

====
